---- MODULE Spec2Model ----
(***************************************************************************)
(* Verification model of personif.ai's backend services.                   *)
(*                                                                         *)
(* Part 1: AudioChunkingService (services/audio_chunking_service.py).      *)
(* Three kinds of threads share one service object:                        *)
(*   - the producer (microphone) thread, calling add_audio_data;           *)
(*   - the control thread, calling start, stop, clear_buffer and           *)
(*     set_chunk_callback;                                                 *)
(*   - the worker threads, each running _processing_loop.                  *)
(* A sample is modelled by its position in the stream of accepted samples  *)
(* (1, 2, 3, ...), so that a chunk's data tells which part of the stream   *)
(* it holds.  Sizes are scaled down; the code's figures are 48000 / 16000  *)
(* / 480000 samples and a queue of 50.                                     *)
(*                                                                         *)
(* Part 2: TranscriptService (services/transcript_service.py), with the    *)
(* one field of SpeakerService it reads (last_speaker_was_user).  The      *)
(* recognizer thread delivers the session events to on_begin, on_turn and  *)
(* on_terminated; another thread may call clear_transcript; the audio      *)
(* worker publishes a speaker classification at any moment.  A text is a   *)
(* sequence of tokens, the token " " standing for white space, so that     *)
(* joining and stripping are computed and not assumed.                     *)
(*                                                                         *)
(* Part 3: SpeakerService (services/speaker_service.py): the profile in    *)
(* memory and in its file, the threshold, and the scoring.  Numbers in     *)
(* [0, 1] are held in thousandths and embeddings are small integer         *)
(* vectors of integer norm, so that the arithmetic is exact.               *)
(*                                                                         *)
(* Part 4: the generation of a response (generate.py) as it is handed to   *)
(* speech synthesis (json_voice_assistant.py).                             *)
(*                                                                         *)
(* Part 5: JsonBinService (services/jsonbin_service.py) and the remote     *)
(* record it reads and writes.                                             *)
(*                                                                         *)
(* Part 6: an AudioChunkingService built with any sizes, fed frame by      *)
(* frame by one thread.                                                    *)
(*                                                                         *)
(* Part 7: the three mutexes (one per service) and the threads that take   *)
(* them: who holds which, and who waits for which.                         *)
(*                                                                         *)
(* Each part has its own specification, the other parts being at rest:     *)
(* Spec / FairSpec (part 1), TranscriptSpec (part 2), SpeakerSpec (part    *)
(* 3), GenSpec (part 4), JsonBinSpec (part 5), ChunkerSpec (part 6),       *)
(* LockSpec / FairLockSpec (part 7).  Parts 2 and 3 share                  *)
(* last_speaker_was_user.                                                  *)
(***************************************************************************)
EXTENDS Integers, Sequences, FiniteSets, TLC

\* ---- scaled configuration ------------------------------------------------
\* chunk_size_samples, overlap_samples, max_buffer_samples (constructor
\* arguments, in samples) and the maxsize of queue.Queue.
ChunkSizeSamples == 2
OverlapSamples == 1
MaxBufferSamples == 4
QueueMaxsize == 2

\* ---- bounds of the exploration ------------------------------------------
MaxFrame == 4        \* longest frame handed to add_audio_data
MaxSamples == 7      \* samples accepted over a whole run
MaxThreads == 2      \* worker threads alive at once

ThreadIds == 1..MaxThreads
NoThread == 0
NoChunk == << >>
FrameLens == 1..MaxFrame
Callbacks == {"cb"}

VARIABLES
    audio_buffer,       \* self._audio_buffer: sequence of samples
    chunk_queue,        \* self._chunk_queue: sequence of chunks, head = oldest
    is_running,         \* self._is_running
    processing_thread,  \* self._processing_thread: thread id or NoThread
    chunk_callback,     \* self._chunk_callback: "None" or a callback
    lock,               \* self._lock: "free", "producer" or "control"
    t_pc,               \* per worker thread: position in _processing_loop
    t_chunk,            \* per worker thread: local variable chunk
    p_pc,               \* producer: position in add_audio_data
    p_frame,            \* producer: length of the frame being added
    p_chunk,            \* producer: local variable chunk of _try_create_chunk
    c_pc,               \* control thread: position in stop / clear_buffer
    n_samples,          \* number of samples accepted so far
    \* ---- observation (history) variables, read by no action's guard ----
    t_raised,           \* per worker thread: its callback has raised before
    h_ev,               \* what the last step did (a log line, or "")
    h_prev,             \* the chunk extracted before h_last, or NoChunk
    h_last,             \* the chunk extracted most recently, or NoChunk
    h_gap,              \* what dropped samples between h_prev and h_last
    h_cleared,          \* clear_buffer ran since h_last was extracted
    h_delivered         \* the chunk most recently passed to the callback

VARIABLES
    ts,                     \* the TranscriptService object and its JSON file
    last_speaker_was_user,  \* speaker_service.last_speaker_was_user
    ts_pc,                  \* recognizer thread: position in on_turn
    n_write_fail,           \* writes of the JSON file that have failed so far
    \* ---- observation (history) variables ----
    api_calls,              \* texts posted to the response API since the
                            \* history was last emptied
    ts_escaped,             \* an exception has left a handler
    ts_ev                   \* "init", "begin" or "clear" when the last step of
                            \* part 2 was that call, "api_called" or
                            \* "api_failed" when it made a response call
                            \* (that failed), else ""; a classification
                            \* made while on_turn is under way leaves it

VARIABLES
    \* ---- SpeakerService ----
    sp,                     \* the global speaker_service object and the file
                            \* at user_voice_profile_path
    sp_ret,                 \* the last call of the object and what it returned
    sp_deleted,             \* delete_user_profile has returned and no
                            \* enroll_user_voice has succeeded since
    \* ---- response generation ----
    gen,                    \* one call of stream_ai_to_voice_realtime: the
                            \* generators' position and what speech
                            \* synthesis has been handed
    \* ---- JsonBinService ----
    bin,                    \* the remote record, and the last call of the
                            \* service with what it returned
    \* ---- AudioChunkingService, any configuration ----
    cs,                     \* a service object built with sizes of its own:
                            \* the sizes, the buffer, the last chunk made
    \* ---- the mutexes of the three services ----
    lk                      \* who holds each mutex, and where each thread
                            \* that takes them is in its call

chunkvars == << audio_buffer, chunk_queue, is_running, processing_thread,
                chunk_callback, lock, t_pc, t_chunk, p_pc, p_frame, p_chunk,
                c_pc, n_samples >>
histvars == << t_raised, h_ev, h_prev, h_last, h_gap, h_cleared, h_delivered >>
tsvars == << ts, last_speaker_was_user, ts_pc, n_write_fail,
             api_calls, ts_escaped, ts_ev >>
spvars == << sp, sp_ret, sp_deleted >>
extvars == << spvars, gen, bin, cs, lk >>
vars == << chunkvars, histvars, tsvars, extvars >>

\* ---- pure helpers -------------------------------------------------------
Last(s) == s[Len(s)]
Prefix(s, n) == SubSeq(s, 1, n)
Suffix(s, n) == SubSeq(s, Len(s) - n + 1, Len(s))
Range(s) == { s[i] : i \in 1..Len(s) }

\* The frame of n samples that arrives next: stream positions n_samples+1 ..
NewFrame(n) == [ i \in 1..n |-> n_samples + i ]

\* np.concatenate([self._audio_buffer, audio_data])
Concat(buf, frame) == buf \o frame

\* Variant: the trim is left out.
TrimNothing(buf) == buf

\* Variant: the excess is cut off the end, the oldest samples are kept.
TrimNewest(buf) ==
    IF Len(buf) > MaxBufferSamples
    THEN SubSeq(buf, 1, MaxBufferSamples)
    ELSE buf

\* if len(buf) > max_buffer_samples: buf = buf[excess_samples:]
Trim(buf) ==
    IF Len(buf) > MaxBufferSamples
    THEN SubSeq(buf, Len(buf) - MaxBufferSamples + 1, Len(buf))
    ELSE buf

\* chunk_data = self._audio_buffer[:self.chunk_size_samples].copy()
ChunkData(buf) == SubSeq(buf, 1, ChunkSizeSamples)

\* Variant: the whole chunk is removed, the overlap is not kept.
RemoveWholeChunk(buf) == SubSeq(buf, ChunkSizeSamples + 1, Len(buf))

\* Variant: every chunk's worth that is ready is removed in the one call.
RECURSIVE RemoveAllReady(_)
RemoveAllReady(buf) ==
    IF Len(buf) < ChunkSizeSamples
    THEN buf
    ELSE RemoveAllReady(SubSeq(buf, (ChunkSizeSamples - OverlapSamples) + 1,
                               Len(buf)))

\* self._audio_buffer = self._audio_buffer[samples_to_remove:]
RemoveProcessed(buf) ==
    SubSeq(buf, (ChunkSizeSamples - OverlapSamples) + 1, Len(buf))

\* Every chunk that has been extracted and has not yet left the service:
\* queued, held by the producer for enqueuing, or popped by a worker that
\* has not yet reached its callback test.
InSystem ==
    Range(chunk_queue)
    \cup (IF p_chunk # NoChunk THEN {p_chunk} ELSE {})
    \cup { t_chunk[w] : w \in { x \in ThreadIds : t_pc[x] = "got" } }

LiveThreads == { w \in ThreadIds : t_pc[w] # "none" }

\* ---- TranscriptService: values -------------------------------------------

MaxTurns == 4           \* turn events kept in the history at once
MaxPartials == 1        \* of them, events with end_of_turn false
MaxWriteFailures == 1   \* failed writes of the JSON file over a whole run

\* event.transcript: empty, white space only, or words.
Texts == { << " " >>, << "hi" >>, << "hello there" >> }

\* The keys of _transcription_data and _finalized_text.
Speakers == { "you", "other" }

\* self._current_speaker = "other"   (__init__, on_begin, clear_transcript)
DefaultSpeaker == "other"

\* {"you": "", "other": ""}
EmptyData == [ you |-> << >>, other |-> << >> ]

\* What a call of _write_json_file can come to: the file is rewritten; open()
\* fails and the file stays as it was; json.dump fails after open() has
\* truncated the file.
WriteOutcomes == { "ok", "open_fails", "dump_fails" }


\* TranscriptService.__init__.  json_file is the content of the file at
\* json_output_path: << d >> when it holds the JSON of d, << >> when it
\* holds no complete JSON document.  _skip_next_other_update does not exist
\* until it is first set, which the hasattr test reads as false.  Every
\* session has the one id "id".
InitService ==
    [ session_id |-> "None",
      is_active |-> FALSE,
      current_transcript |-> << >>,
      complete_transcript |-> << >>,
      transcript_history |-> << >>,
      current_speaker |-> DefaultSpeaker,
      transcription_data |-> EmptyData,
      finalized_text |-> EmptyData,
      skip_next_other_update |-> FALSE,
      json_file |-> << EmptyData >> ]

\* ---- SpeakerService: values ----------------------------------------------

\* min_samples = sample_rate * 1, scaled down.
MinSamples == 2

\* audio_data: one sample, or a full second of them.  No sample is zero, so
\* that padding is told apart from sound.
AudioSamples == { 1 }
Audios == UNION { [ 1..n -> AudioSamples ] : n \in 1..MinSamples }

\* np.pad(audio_data, (0, min_samples - len(audio_data)), 'constant')
Pad(audio) ==
    IF Len(audio) < MinSamples
    THEN audio \o [ i \in 1..(MinSamples - Len(audio)) |-> 0 ]
    ELSE audio

\* What the model is given: an audio as it came, or padded.
ModelInputs == Audios \cup { Pad(a) : a \in Audios }

\* Embedding vectors (two dimensions for the extractor's 192), of norms 1
\* and 5: their cosines are -1, -3/5, 3/5 and 1.
Embeddings == { << 1, 0 >>, << -1, 0 >>, << 3, 4 >> }

\* self.model after _initialize_model: encode_batch as a function of its
\* input, the same embedding for the same audio.  Which function it is
\* depends on the weights that from_hparams loads.
Extractors == [ ModelInputs -> Embeddings ]

\* Numbers between 0 and 1 are held in thousandths: 700 is 0.7.
Scale == 1000

\* self.similarity_threshold = 0.7
DefaultThreshold == 700

\* Arguments of set_similarity_threshold: inside [0, 1], and just outside.
ThresholdInputs == { 0 - 1, 0, DefaultThreshold, 800, Scale, Scale + 1 }

\* self.user_voice_profile = None
NoProfile == << >>

\* The file at user_voice_profile_path: absent; << e >> when it holds the
\* array e; and a file np.save has begun and not finished.
NoFile == << >>
TornFile == << NoProfile >>
ProfileFiles == { NoFile, TornFile } \cup { << e >> : e \in Embeddings }

\* The time before `speaker_service = SpeakerService()` has run.
NoService ==
    [ constructed |-> FALSE,
      model |-> << >>,
      user_voice_profile |-> NoProfile,
      similarity_threshold |-> DefaultThreshold,
      profile_file |-> NoFile ]

\* SpeakerResult(False, 0.0, 0.0, now): no profile (line 125).
NoProfileResultNeutral ==
    [ is_user |-> FALSE, confidence |-> 0, similarity_score |-> Scale \div 2 ]

NoProfileResult ==
    [ is_user |-> FALSE, confidence |-> 0, similarity_score |-> 0 ]

\* SpeakerResult(False, 0.0, 0.0, now): an exception was caught (line 156).
FailedResult ==
    [ is_user |-> FALSE, confidence |-> 0, similarity_score |-> 0 ]

\* A call and its return value: op is the method, arg its argument, ok the
\* boolean it returned, raised whether an exception left it, result the
\* SpeakerResult.
Call(op, arg, ok, raised, result) ==
    [ op |-> op, arg |-> arg, ok |-> ok, raised |-> raised,
      result |-> result ]
NoCall == Call("none", << >>, FALSE, FALSE, FailedResult)

\* ---- response generation: values ------------------------------------------
\* A string is a sequence of pieces: letters, the space " ", and whole
\* fixed texts.

MaxChunks == 3          \* chunks of one response stream
MaxResponses == 2       \* calls of stream_ai_to_voice_realtime

\* chunk.choices[0].delta.content: nothing, a letter, a space, the end of a
\* word, the start of one.
Deltas == { << >>, << "a" >>, << " " >>, << "b", " " >>, << " ", "a" >> }

\* f"Error: {e}"
ErrorText == << "Error:", " ", "e" >>

\* "Sorry, I encountered an error generating a response. "
Apology == << "Sorry, I encountered an error generating a response.", " " >>

\* Before a call of stream_ai_to_voice_realtime.
InitGen ==
    [ pc |-> "idle",
      n_responses |-> 0,
      current_content |-> << >>,
      n_chunks |-> 0,
      handed |-> << >>,
      failed |-> FALSE,
      raised |-> FALSE ]

\* ---- JsonBinService: values ----------------------------------------------

MaxRecords == 2         \* personifications in the remote record

\* A personification record, by its id and name.
Personifications == [ id : { "p1", "p2" }, name : { "A", "B" } ]
PersonificationLists ==
    UNION { [ 1..n -> Personifications ] : n \in 0..MaxRecords }

\* "choice": null, an id, or the empty string (update_active_choice takes
\* any Optional[str]).
Choices == { "None", "", "p1", "p2" }

\* {"choice": None, "personifications": []}
DefaultData == [ choice |-> "None", personifications |-> << >> ]

\* The remote record as first found, and no call made yet.  ret is << >>
\* for None and << r >> for the record r.
InitBin ==
    [ data |-> DefaultData, op |-> "none", ok |-> FALSE, ret |-> << >>,
      raised |-> FALSE ]

\* ---- AudioChunkingService, any configuration: values ----------------------

MaxConfig == 4          \* largest max_buffer_samples
MaxConfigFrame == 3     \* longest frame
MaxConfigSamples == 6   \* samples added over a run

\* The time before AudioChunkingService(...) has run.
NoChunker ==
    [ constructed |-> FALSE,
      chunk_size_samples |-> 0,
      overlap_samples |-> 0,
      max_buffer_samples |-> 0,
      audio_buffer |-> << >>,
      chunk |-> << >>,
      n_samples |-> 0 ]

\* The threads that take the mutexes: the microphone callback, the
\* recognizer's event thread, a control thread, and the dispatcher workers
\* that start() creates.
Mic == << "mic", 0 >>
Recognizer == << "recognizer", 0 >>
Control == << "control", 0 >>
Workers == { << "worker", i >> : i \in ThreadIds }
LkThreads == { Mic, Recognizer, Control } \cup Workers
Mutexes == { "buffer", "speaker", "transcript" }
NoOwner == << "none", 0 >>

\* All three mutexes free (threading.Lock() in each constructor), no call
\* under way, no worker, the service stopped, the queue empty.
InitLk ==
    [ owner |-> [ m \in Mutexes |-> NoOwner ],
      pc |-> [ t \in LkThreads |-> IF t \in Workers THEN "none" ELSE "idle" ],
      is_running |-> FALSE,
      queued |-> 0 ]

Init ==
    /\ audio_buffer = << >>
    /\ chunk_queue = << >>
    /\ is_running = FALSE
    /\ processing_thread = NoThread
    /\ chunk_callback = "None"
    /\ lock = "free"
    /\ t_pc = [ w \in ThreadIds |-> "none" ]
    /\ t_chunk = [ w \in ThreadIds |-> NoChunk ]
    /\ p_pc = "idle"
    /\ p_frame = 0
    /\ p_chunk = NoChunk
    /\ c_pc = "idle"
    /\ n_samples = 0
    /\ t_raised = [ w \in ThreadIds |-> FALSE ]
    /\ h_ev = ""
    /\ h_prev = NoChunk
    /\ h_last = NoChunk
    /\ h_gap = "none"
    /\ h_cleared = FALSE
    /\ h_delivered = NoChunk
    /\ ts = InitService
    /\ last_speaker_was_user = "None"
    /\ ts_pc = "idle"
    /\ n_write_fail = 0
    /\ api_calls = << >>
    /\ ts_escaped = FALSE
    /\ ts_ev = "init"
    /\ sp = NoService
    /\ sp_ret = NoCall
    /\ sp_deleted = FALSE
    /\ gen = InitGen
    /\ bin = InitBin
    /\ cs = NoChunker
    /\ lk = InitLk


\* ---- producer thread: add_audio_data -------------------------------------

\* Variant: add_audio_data without the `if not self._is_running` test.
AddAudioDataAlways(n) ==
    /\ p_pc = "idle"
    /\ n_samples + n <= MaxSamples
    /\ p_pc' = "lock"
    /\ p_frame' = n
    /\ h_ev' = IF is_running THEN "add_called" ELSE "add_ignored"
    /\ UNCHANGED << audio_buffer, chunk_queue, is_running, processing_thread,
                    chunk_callback, lock, t_pc, t_chunk, p_chunk, c_pc,
                    n_samples, t_raised, h_prev, h_last, h_gap, h_cleared,
                    h_delivered >>
    /\ UNCHANGED << tsvars, extvars >>

\* add_audio_data, entry: `if not self._is_running: return`, read without
\* the lock; otherwise go on to `with self._lock`.
AddAudioData(n) ==
    /\ p_pc = "idle"
    /\ n_samples + n <= MaxSamples
    /\ IF is_running
       THEN /\ p_pc' = "lock"
            /\ p_frame' = n
            /\ h_ev' = "add_called"
       ELSE /\ UNCHANGED << p_pc, p_frame >>
            /\ h_ev' = "add_ignored"
    /\ UNCHANGED << audio_buffer, chunk_queue, is_running, processing_thread,
                    chunk_callback, lock, t_pc, t_chunk, p_chunk, c_pc,
                    n_samples, t_raised, h_prev, h_last, h_gap, h_cleared,
                    h_delivered >>
    /\ UNCHANGED << tsvars, extvars >>

\* add_audio_data under the lock: concatenate, trim, and, when a chunk's
\* worth is buffered, _try_create_chunk up to its first put_nowait.  The
\* lock is kept only where the call goes on (queue.Full).
AddLocked ==
    /\ p_pc = "lock"
    /\ lock = "free"
    /\ LET buf1 == Concat(audio_buffer, NewFrame(p_frame))
           buf2 == Trim(buf1)
       IN  /\ n_samples' = n_samples + p_frame
           /\ p_frame' = 0
           /\ IF Len(buf2) >= ChunkSizeSamples
              THEN LET chunk == ChunkData(buf2) IN
                   /\ audio_buffer' = RemoveProcessed(buf2)
                   /\ h_prev' = h_last
                   /\ h_last' = chunk
                   /\ h_gap' = IF h_cleared THEN "clear"
                               ELSE IF Len(buf2) < Len(buf1) THEN "trim"
                               ELSE "none"
                   /\ h_cleared' = FALSE
                   /\ IF Len(chunk_queue) < QueueMaxsize
                      THEN /\ chunk_queue' = Append(chunk_queue, chunk)
                           /\ UNCHANGED << p_chunk, lock >>
                           /\ p_pc' = "idle"
                      ELSE \* queue.Full
                           /\ p_chunk' = chunk
                           /\ lock' = "producer"
                           /\ p_pc' = "full"
                           /\ UNCHANGED chunk_queue
              ELSE /\ audio_buffer' = buf2
                   /\ p_pc' = "idle"
                   /\ UNCHANGED << chunk_queue, p_chunk, lock, h_prev, h_last,
                                   h_gap, h_cleared >>
    /\ h_ev' = ""
    /\ UNCHANGED << is_running, processing_thread, chunk_callback, t_pc,
                    t_chunk, c_pc, t_raised, h_delivered >>
    /\ UNCHANGED << tsvars, extvars >>

\* except queue.Full: self._chunk_queue.get_nowait()   (remove oldest);
\* on queue.Empty: pass, which ends the call without the new chunk.
EvictOldest ==
    /\ p_pc = "full"
    /\ IF chunk_queue # << >>
       THEN /\ chunk_queue' = Tail(chunk_queue)
            /\ p_pc' = "evicted"
            /\ h_ev' = ""
            /\ UNCHANGED << p_chunk, lock >>
       ELSE /\ p_chunk' = NoChunk
            /\ lock' = "free"
            /\ p_pc' = "idle"
            /\ h_ev' = "dropped_new"
            /\ UNCHANGED chunk_queue
    /\ UNCHANGED << audio_buffer, is_running, processing_thread,
                    chunk_callback, t_pc, t_chunk, p_frame, c_pc, n_samples,
                    t_raised, h_prev, h_last, h_gap, h_cleared, h_delivered >>
    /\ UNCHANGED << tsvars, extvars >>

\* self._chunk_queue.put_nowait(chunk)   (add new), then the lock is left.
\* A second queue.Full would reach `except Exception` and lose the chunk.
PutAfterEvict ==
    /\ p_pc = "evicted"
    /\ IF Len(chunk_queue) < QueueMaxsize
       THEN /\ chunk_queue' = Append(chunk_queue, p_chunk)
            /\ h_ev' = ""
       ELSE /\ UNCHANGED chunk_queue
            /\ h_ev' = "dropped_new"
    /\ p_chunk' = NoChunk
    /\ lock' = "free"
    /\ p_pc' = "idle"
    /\ UNCHANGED << audio_buffer, is_running, processing_thread,
                    chunk_callback, t_pc, t_chunk, p_frame, c_pc, n_samples,
                    t_raised, h_prev, h_last, h_gap, h_cleared, h_delivered >>
    /\ UNCHANGED << tsvars, extvars >>


\* ---- control thread: start, stop, clear_buffer, set_chunk_callback -------

\* set_chunk_callback: a plain assignment, no lock.
SetChunkCallback(cb) ==
    /\ c_pc = "idle"
    /\ chunk_callback' = cb
    /\ h_ev' = ""
    /\ UNCHANGED << audio_buffer, chunk_queue, is_running, processing_thread,
                    lock, t_pc, t_chunk, p_pc, p_frame, p_chunk, c_pc,
                    n_samples, t_raised, h_prev, h_last, h_gap, h_cleared,
                    h_delivered >>
    /\ UNCHANGED << tsvars, extvars >>

\* The thread object start() creates: the lowest id not in use.
FreshThread == CHOOSE w \in ThreadIds \ LiveThreads :
                 \A x \in ThreadIds \ LiveThreads : w <= x

\* Variant: start() without the `if self._is_running: return` test.
StartUnguarded ==
    /\ c_pc = "idle"
    /\ lock = "free"
    /\ LiveThreads # ThreadIds
    /\ is_running' = TRUE
    /\ processing_thread' = FreshThread
    /\ t_pc' = [ t_pc EXCEPT ![FreshThread] = "loop" ]
    /\ t_raised' = [ t_raised EXCEPT ![FreshThread] = FALSE ]
    /\ h_ev' = IF is_running THEN "start_noop" ELSE ""
    /\ UNCHANGED << audio_buffer, chunk_queue, chunk_callback, lock, t_chunk,
                    p_pc, p_frame, p_chunk, c_pc, n_samples, h_prev, h_last,
                    h_gap, h_cleared, h_delivered >>
    /\ UNCHANGED << tsvars, extvars >>

\* start(): under the lock; when already running, warn and return;
\* otherwise set the flag, create the worker thread and start it.
Start ==
    /\ c_pc = "idle"
    /\ lock = "free"
    /\ is_running \/ LiveThreads # ThreadIds
    /\ IF is_running
       THEN /\ h_ev' = "start_noop"
            /\ UNCHANGED << is_running, processing_thread, t_pc, t_raised >>
       ELSE /\ is_running' = TRUE
            /\ processing_thread' = FreshThread
            /\ t_pc' = [ t_pc EXCEPT ![FreshThread] = "loop" ]
            /\ t_raised' = [ t_raised EXCEPT ![FreshThread] = FALSE ]
            /\ h_ev' = ""
    /\ UNCHANGED << audio_buffer, chunk_queue, chunk_callback, lock, t_chunk,
                    p_pc, p_frame, p_chunk, c_pc, n_samples, h_prev, h_last,
                    h_gap, h_cleared, h_delivered >>
    /\ UNCHANGED << tsvars, extvars >>

\* Variant: stop() also throws away what is queued.
StopLockedDrains ==
    /\ c_pc = "idle"
    /\ lock = "free"
    /\ is_running
    /\ is_running' = FALSE
    /\ chunk_queue' = << >>
    /\ c_pc' = "join"
    /\ h_ev' = ""
    /\ UNCHANGED << audio_buffer, processing_thread, chunk_callback, lock,
                    t_pc, t_chunk, p_pc, p_frame, p_chunk, n_samples,
                    t_raised, h_prev, h_last, h_gap, h_cleared, h_delivered >>
    /\ UNCHANGED << tsvars, extvars >>

\* stop(), under the lock: return when not running, else clear the flag.
\* The lock is released before the join.
StopLocked ==
    /\ c_pc = "idle"
    /\ lock = "free"
    /\ IF is_running
       THEN /\ is_running' = FALSE
            /\ c_pc' = "join"
            /\ h_ev' = ""
       ELSE /\ UNCHANGED << is_running, c_pc >>
            /\ h_ev' = "stop_noop"
    /\ UNCHANGED << audio_buffer, chunk_queue, processing_thread,
                    chunk_callback, lock, t_pc, t_chunk, p_pc, p_frame,
                    p_chunk, n_samples, t_raised, h_prev, h_last, h_gap,
                    h_cleared, h_delivered >>
    /\ UNCHANGED << tsvars, extvars >>

StopReturns ==
    /\ c_pc' = "idle"
    /\ UNCHANGED << audio_buffer, chunk_queue, is_running, processing_thread,
                    chunk_callback, lock, t_pc, t_chunk, p_pc, p_frame,
                    p_chunk, n_samples, t_raised, h_prev, h_last, h_gap,
                    h_cleared, h_delivered >>
    /\ UNCHANGED << tsvars, extvars >>

\* self._processing_thread.join(timeout=2.0): the worker has ended.
JoinReturns ==
    /\ c_pc = "join"
    /\ processing_thread = NoThread \/ t_pc[processing_thread] = "none"
    /\ h_ev' = ""
    /\ StopReturns

\* self._processing_thread.join(timeout=2.0): 2 s pass and the worker lives
\* on.  Outside a callback the worker is at most one get(timeout=0.1) away
\* from its loop test, so it is a callback that outlasts the join.
JoinTimesOut ==
    /\ c_pc = "join"
    /\ processing_thread # NoThread
    /\ t_pc[processing_thread] = "callback"
    /\ h_ev' = "join_timeout"
    /\ StopReturns

\* clear_buffer(): take the lock, empty the audio buffer.
ClearBuffer ==
    /\ c_pc = "idle"
    /\ lock = "free"
    /\ lock' = "control"
    /\ audio_buffer' = << >>
    /\ c_pc' = "clearing"
    /\ h_cleared' = (h_last # NoChunk)
    /\ h_ev' = ""
    /\ UNCHANGED << chunk_queue, is_running, processing_thread,
                    chunk_callback, t_pc, t_chunk, p_pc, p_frame, p_chunk,
                    n_samples, t_raised, h_prev, h_last, h_gap, h_delivered >>
    /\ UNCHANGED << tsvars, extvars >>

\* clear_buffer(): `while not queue.empty(): queue.get_nowait()`, one turn
\* of the loop; the lock is released when the queue is found empty.
ClearQueueStep ==
    /\ c_pc = "clearing"
    /\ IF chunk_queue # << >>
       THEN /\ chunk_queue' = Tail(chunk_queue)
            /\ h_ev' = "cleared"
            /\ UNCHANGED << lock, c_pc >>
       ELSE /\ lock' = "free"
            /\ c_pc' = "idle"
            /\ h_ev' = ""
            /\ UNCHANGED chunk_queue
    /\ UNCHANGED << audio_buffer, is_running, processing_thread,
                    chunk_callback, t_pc, t_chunk, p_pc, p_frame, p_chunk,
                    n_samples, t_raised, h_prev, h_last, h_gap, h_cleared,
                    h_delivered >>
    /\ UNCHANGED << tsvars, extvars >>

\* ---- worker threads: _processing_loop ------------------------------------

WorkerFrame ==
    /\ UNCHANGED << audio_buffer, is_running, processing_thread,
                    chunk_callback, lock, p_pc, p_frame, p_chunk, c_pc,
                    n_samples, h_prev, h_last, h_gap, h_cleared >>
    /\ UNCHANGED << tsvars, extvars >>

\* Variant: `while True:` -- the flag is never looked at.
LoopTestForever(w) ==
    /\ t_pc[w] = "loop"
    /\ t_pc' = [ t_pc EXCEPT ![w] = "get" ]
    /\ h_ev' = ""
    /\ UNCHANGED << chunk_queue, t_chunk, t_raised, h_delivered >>
    /\ WorkerFrame

\* `while self._is_running:` -- the flag is read without the lock; when it
\* is false the loop is left and the thread ends.
LoopTest(w) ==
    /\ t_pc[w] = "loop"
    /\ t_pc' = [ t_pc EXCEPT ![w] = IF is_running THEN "get" ELSE "none" ]
    /\ h_ev' = ""
    /\ UNCHANGED << chunk_queue, t_chunk, t_raised, h_delivered >>
    /\ WorkerFrame

\* chunk = self._chunk_queue.get(timeout=0.1): the oldest chunk, or
\* queue.Empty after the timeout (`continue`).
QueueGet(w) ==
    /\ t_pc[w] = "get"
    /\ IF chunk_queue # << >>
       THEN /\ t_chunk' = [ t_chunk EXCEPT ![w] = Head(chunk_queue) ]
            /\ chunk_queue' = Tail(chunk_queue)
            /\ t_pc' = [ t_pc EXCEPT ![w] = "got" ]
       ELSE /\ t_pc' = [ t_pc EXCEPT ![w] = "loop" ]
            /\ UNCHANGED << chunk_queue, t_chunk >>
    /\ h_ev' = ""
    /\ UNCHANGED << t_raised, h_delivered >>
    /\ WorkerFrame

\* Variant: the callback is called with the buffer lock taken.
InvokeCallbackLocked(w) ==
    /\ t_pc[w] = "got"
    /\ lock = "free"
    /\ lock' = "worker"
    /\ t_pc' = [ t_pc EXCEPT ![w] = "callback" ]
    /\ h_delivered' = t_chunk[w]
    /\ h_ev' = ""
    /\ UNCHANGED << chunk_queue, t_chunk, t_raised >>
    /\ UNCHANGED << audio_buffer, is_running, processing_thread,
                    chunk_callback, p_pc, p_frame, p_chunk, c_pc, n_samples,
                    h_prev, h_last, h_gap, h_cleared >>
    /\ UNCHANGED << tsvars, extvars >>

\* `if self._chunk_callback: self._chunk_callback(chunk)`: the call begins,
\* or, with no callback registered, the chunk is let go.
InvokeCallback(w) ==
    /\ t_pc[w] = "got"
    /\ IF chunk_callback # "None"
       THEN /\ t_pc' = [ t_pc EXCEPT ![w] = "callback" ]
            /\ h_delivered' = t_chunk[w]
            /\ h_ev' = ""
            /\ UNCHANGED t_chunk
       ELSE /\ t_pc' = [ t_pc EXCEPT ![w] = "loop" ]
            /\ t_chunk' = [ t_chunk EXCEPT ![w] = NoChunk ]
            /\ h_ev' = "nocallback"
            /\ UNCHANGED h_delivered
    /\ UNCHANGED << chunk_queue, t_raised >>
    /\ WorkerFrame

\* The callback returns; back to the loop test.
CallbackReturns(w) ==
    /\ t_pc[w] = "callback"
    /\ t_pc' = [ t_pc EXCEPT ![w] = "loop" ]
    /\ t_chunk' = [ t_chunk EXCEPT ![w] = NoChunk ]
    /\ h_ev' = ""
    /\ UNCHANGED << chunk_queue, t_raised, h_delivered >>
    /\ WorkerFrame

\* Variant: no inner try/except, the exception ends the thread.
CallbackErrorEndsThread == "none"

\* Where the worker goes on after `except Exception as e: logger.error(..)`
\* around the callback: the loop test.
AfterCallbackError == "loop"

\* The callback raises; the inner except logs the error.
CallbackRaises(w) ==
    /\ t_pc[w] = "callback"
    /\ t_pc' = [ t_pc EXCEPT ![w] = AfterCallbackError ]
    /\ t_chunk' = [ t_chunk EXCEPT ![w] = NoChunk ]
    /\ t_raised' = [ t_raised EXCEPT ![w] = (AfterCallbackError # "none") ]
    /\ h_ev' = "callback_error"
    /\ UNCHANGED << chunk_queue, h_delivered >>
    /\ WorkerFrame

WorkerStep(w) ==
    \/ LoopTest(w)
    \/ QueueGet(w)
    \/ InvokeCallback(w)
    \/ CallbackReturns(w)
    \/ CallbackRaises(w)

WorkerNext == \E w \in ThreadIds : WorkerStep(w)

Next ==
    \/ \E n \in FrameLens : AddAudioData(n)
    \/ AddLocked
    \/ EvictOldest
    \/ PutAfterEvict
    \/ \E cb \in Callbacks : SetChunkCallback(cb)
    \/ Start
    \/ StopLocked
    \/ JoinReturns
    \/ JoinTimesOut
    \/ ClearBuffer
    \/ ClearQueueStep
    \/ WorkerNext

Spec == Init /\ [][Next]_vars

\* The scheduler runs every worker thread that can take a step, and a
\* callback that was entered comes back (it returns or raises).
FairSpec == Spec /\ WF_vars(WorkerNext)


\* =========================================================================
\* Properties of AudioChunkingService
\* =========================================================================

\* C1: whenever an add_audio_data call has returned (indeed in every state,
\* the buffer being changed only under the lock) the audio buffer holds at
\* most max_buffer_samples samples.
C1_BufferBounded == Len(audio_buffer) <= MaxBufferSamples

\* A call has returned whose frame made the buffer overflow and be trimmed.
C1_Witness ==
    /\ p_pc = "idle"
    /\ h_gap = "trim"
    /\ h_ev = ""
    /\ audio_buffer # << >>

\* The overlap relation between two chunks extracted one after the other.
Overlaps(earlier, later) ==
    Suffix(earlier, OverlapSamples) = Prefix(later, OverlapSamples)

\* C2 as claimed: for sequences of add_audio_data calls (no clear_buffer in
\* between), trimmed or not, two chunks emitted one after the other share
\* exactly overlap_samples stream samples.
C2_OverlapAlways ==
    (h_prev # NoChunk /\ h_gap # "clear") => Overlaps(h_prev, h_last)

\* C2 amended: the overlap holds when the call that emitted the later chunk
\* did not trim the buffer and clear_buffer did not run in between.
C2_OverlapUntrimmed ==
    (h_prev # NoChunk /\ h_gap = "none") => Overlaps(h_prev, h_last)

\* Two chunks were emitted one after the other with nothing dropped between.
C2_Witness ==
    /\ h_prev # NoChunk
    /\ h_gap = "none"
    /\ Len(h_last) = ChunkSizeSamples
    /\ Last(h_prev) = h_last[OverlapSamples]

\* C3 as claimed: a chunk produced onto a full queue is enqueued, last in
\* line, after exactly the oldest queued chunk was evicted; the new chunk
\* is never the one dropped, whatever the worker does in between.
C3_DropOldestNeverNewest ==
    [][ /\ (p_pc = "full" /\ p_pc' # "full")
            => (chunk_queue # << >> /\ chunk_queue' = Tail(chunk_queue)
                /\ p_pc' = "evicted")
        /\ (p_pc \in {"full", "evicted"} /\ p_pc' = "idle")
            => (chunk_queue' # << >> /\ Last(chunk_queue') = p_chunk)
      ]_vars

\* The ways a chunk leaves the service.
Delivered(c) ==
    \E w \in ThreadIds :
        t_pc[w] = "got" /\ t_chunk[w] = c /\ t_pc'[w] = "callback"
Evicted(c) ==
    /\ p_pc = "full"
    /\ chunk_queue # << >>
    /\ c = Head(chunk_queue)
    /\ p_pc' = "evicted"
ClearedAway(c) ==
    /\ c_pc = "clearing"
    /\ chunk_queue # << >>
    /\ c = Head(chunk_queue)
    /\ c_pc' = "clearing"
LetGoWithoutCallback(c) ==
    \E w \in ThreadIds :
        /\ t_pc[w] = "got"
        /\ t_chunk[w] = c
        /\ chunk_callback = "None"
        /\ t_pc'[w] = "loop"
DroppedAsNewest(c) ==
    /\ p_pc = "full"
    /\ c = p_chunk
    /\ chunk_queue = << >>

\* C4 as claimed: a chunk leaves the service only by being passed to the
\* callback or by being evicted as the oldest of a queue found full.
C4_OnlyDeliveredOrEvicted ==
    [][ \A c \in InSystem \ InSystem' : Delivered(c) \/ Evicted(c) ]_vars

\* C4 amended: a chunk leaves the service only by being passed to the
\* callback, by eviction as the oldest, by clear_buffer emptying the queue,
\* by being popped while no callback is registered, or by being given up as
\* the new chunk when the queue found full was drained before the eviction;
\* stop() discards nothing.
C4_OnlyFivePaths ==
    [][ \A c \in InSystem \ InSystem' :
            \/ Delivered(c)
            \/ Evicted(c)
            \/ ClearedAway(c)
            \/ LetGoWithoutCallback(c)
            \/ DroppedAsNewest(c)
      ]_vars

\* clear_buffer has just thrown a queued chunk away while a worker is
\* passing another chunk to the callback.
C4_Witness ==
    /\ h_ev = "cleared"
    /\ c_pc = "clearing"
    /\ \E w \in ThreadIds : t_pc[w] = "callback"

\* C5 as claimed: chunks reach the callback in the order they were
\* enqueued.  Chunks are enqueued in the order they are extracted, which is
\* the order of their first samples.
C5_FifoDelivery ==
    [][ \A w \in ThreadIds :
            (t_pc[w] = "got" /\ t_pc'[w] = "callback" /\ h_delivered # NoChunk)
                => h_delivered[1] < t_chunk[w][1]
      ]_vars

\* C6: a worker leaves a callback, whether it returned or raised, for the
\* loop test, and a worker thread ends only at the loop test with the
\* running flag false; so a raising callback ends no worker.
C6_CallbackErrorIsolated ==
    [][ \A w \in ThreadIds :
            /\ (t_pc[w] = "callback" /\ t_pc'[w] # "callback")
                   => t_pc'[w] = "loop"
            /\ (t_pc[w] # "none" /\ t_pc'[w] = "none")
                   => (t_pc[w] = "loop" /\ ~is_running)
      ]_vars

\* A worker whose callback raised on an earlier chunk is in the callback
\* again with a later chunk.
C6_Witness ==
    \E w \in ThreadIds :
        t_raised[w] /\ t_pc[w] = "callback" /\ t_chunk[w] # NoChunk

\* C7: start() on a running service changes nothing: no thread is created
\* and flag, thread handle, buffer, queue and callback stay as they are.
C7_StartIdempotent ==
    [][ h_ev' = "start_noop"
            => (UNCHANGED chunkvars /\ LiveThreads' = LiveThreads) ]_vars

\* start() was just called on a running service with a live worker.
C7_Witness ==
    /\ h_ev = "start_noop"
    /\ is_running
    /\ LiveThreads # {}

\* C8: while stop() waits in its join the flag is false; the steps of
\* stop() leave every worker where it is (no callback is interrupted); and
\* once the flag is false every worker ends, unless start() sets the flag
\* again.
C8_StopTerminatesWorker ==
    /\ [](c_pc = "join" => ~is_running)
    /\ [][ (c_pc # c_pc' /\ "join" \in {c_pc, c_pc'})
               => UNCHANGED << t_pc, t_chunk >> ]_vars
    /\ (~is_running ~> (is_running \/ LiveThreads = {}))

\* stop() has returned on its join timeout while a callback is in flight.
C8_Witness ==
    /\ h_ev = "join_timeout"
    /\ ~is_running
    /\ c_pc = "idle"
    /\ \E w \in ThreadIds : t_pc[w] = "callback"

\* C9: the locked part of one add_audio_data call takes at most one chunk
\* out of the buffer, removing chunk_size - overlap samples and leaving the
\* rest; no other step of any thread produces a chunk, nor changes the
\* buffer other than by emptying it (clear_buffer).
C9_OneChunkPerCall ==
    [][ /\ (p_pc = "lock" /\ p_pc' # "lock")
            => LET b == Trim(Concat(audio_buffer, NewFrame(p_frame))) IN
               IF Len(b) >= ChunkSizeSamples
               THEN /\ audio_buffer' =
                         SubSeq(b, ChunkSizeSamples - OverlapSamples + 1, Len(b))
                    /\ Cardinality(InSystem' \ InSystem) = 1
               ELSE /\ audio_buffer' = b
                    /\ InSystem' \subseteq InSystem
        /\ ~(p_pc = "lock" /\ p_pc' # "lock")
            => /\ InSystem' \subseteq InSystem
               /\ audio_buffer' = audio_buffer \/ audio_buffer' = << >>
      ]_vars

\* A call has returned that found two chunk lengths in the buffer, took
\* one chunk and left the rest, itself a chunk's worth or more.
C9_Witness ==
    /\ p_pc = "idle"
    /\ h_ev = ""
    /\ h_last # NoChunk
    /\ ~h_cleared
    /\ Len(audio_buffer) >= ChunkSizeSamples + OverlapSamples
    /\ Head(audio_buffer) = h_last[ChunkSizeSamples - OverlapSamples + 1]

\* C10: while a callback executes and no clear_buffer holds the lock, the
\* lock is free and a waiting add_audio_data can take its locked step.
C10_CallbackOutsideLock ==
    ( /\ \E w \in ThreadIds : t_pc[w] = "callback"
      /\ p_pc = "lock"
      /\ c_pc # "clearing" )
        => (lock = "free" /\ ENABLED AddLocked)

\* add_audio_data was called while a callback was in progress.
C10_Witness ==
    /\ \E w \in ThreadIds : t_pc[w] = "callback"
    /\ p_pc = "lock"
    /\ h_ev = "add_called"
    /\ c_pc = "idle"


\* =========================================================================
\* Part 2: TranscriptService
\* =========================================================================

\* ---- texts ---------------------------------------------------------------

\* a + " " + b when a is non-empty (a truthy str), else b: the rule of
\* _update_transcription lines 89-98 and of on_turn lines 166-169.
JoinText(a, b) == IF a # << >> THEN a \o << " " >> \o b ELSE b

RECURSIVE LStrip(_)
LStrip(t) == IF t # << >> /\ Head(t) = " " THEN LStrip(Tail(t)) ELSE t

RECURSIVE RStrip(_)
RStrip(t) ==
    IF t # << >> /\ t[Len(t)] = " " THEN RStrip(SubSeq(t, 1, Len(t) - 1))
    ELSE t

\* str.strip()
Strip(t) == RStrip(LStrip(t))

\* ---- the methods, as functions of the object ------------------------------

\* Variant: _write_json_file without its try/except.
WriteErrorPropagates(o) == o # "ok"

\* Whether an error of the write leaves _write_json_file: never, it is
\* caught and logged.
WriteErrorLeaves(o) == FALSE

\* _write_json_file: json.dump(self._transcription_data) to the file.
WriteJsonFile(s, o) ==
    [ ts |-> [ s EXCEPT !.json_file =
                 CASE o = "ok" -> << s.transcription_data >>
                   [] o = "open_fails" -> @
                   [] o = "dump_fails" -> << >> ],
      raised |-> WriteErrorLeaves(o) ]

\* Variant: the speaker alternates, whatever the classification.
ActualSpeakerAlternates(s, ls) ==
    IF s.current_speaker = "you" THEN "other" ELSE "you"

\* _get_actual_speaker, ls being the value get_last_speaker_was_user()
\* returned.
ActualSpeaker(s, ls) ==
    IF ls = "None" THEN s.current_speaker
    ELSE IF ls = "True" THEN "you" ELSE "other"

\* _clear_current_transcript; an error of the write would be caught here.
ClearCurrentTranscript(s, o) ==
    WriteJsonFile([ s EXCEPT !.transcription_data.other = << >>,
                             !.finalized_text.other = << >>,
                             !.skip_next_other_update = TRUE ], o).ts

\* Variant: the text is not stripped before it is tested.
MakesApiCallUnstripped(text, ls) ==
    /\ ls # "None"
    /\ ls # "True"
    /\ text # << >>

\* Variant: the test for a missing classification is left out.
MakesApiCallUnlessUser(text, ls) ==
    /\ ls # "True"
    /\ Strip(text) # << >>

\* Whether _handle_end_of_turn makes the API call: there is a
\* classification, it is "not the user", and the text is not blank.
MakesApiCall(text, ls) ==
    /\ ls # "None"
    /\ ls # "True"
    /\ Strip(text) # << >>

\* What requests.post(endpoint, json=payload, timeout=5) can come to.
ApiOutcomes == { "ok", "status_500", "timeout", "request_error" }

\* Variant: _make_api_call_with_transcript without its except clauses.
ApiErrorPropagates(r) == r \in { "timeout", "request_error" }

\* Whether an error of the call leaves _make_api_call_with_transcript:
\* never; a status other than 200 is only logged, and Timeout,
\* RequestException and Exception are caught and logged.
ApiErrorLeaves(r) == FALSE

\* _handle_end_of_turn: _make_api_call_with_transcript, with outcome r, and
\* then _clear_current_transcript.  An exception leaving the call would
\* be caught by the outer except, past the clearing.
HandleEndOfTurn(s, text, ls, o, r) ==
    IF MakesApiCall(text, ls)
    THEN IF ApiErrorLeaves(r)
         THEN [ ts |-> s, called |-> TRUE, wrote |-> FALSE ]
         ELSE [ ts |-> ClearCurrentTranscript(s, o), called |-> TRUE,
                wrote |-> TRUE ]
    ELSE [ ts |-> s, called |-> FALSE, wrote |-> FALSE ]

\* Variant: a partial text is finalized like an end of turn.
RecordedAsFinal(s, actual, text, eot) ==
    LET shown == JoinText(s.finalized_text[actual], text) IN
    [ s EXCEPT !.current_speaker = actual,
               !.finalized_text[actual] = shown,
               !.transcription_data[actual] = shown ]

\* _update_transcription, lines 85-103: the speaker becomes the actual
\* speaker; a partial text is shown after that speaker's finalized text, a
\* final text is added to the finalized text and that is shown.
Recorded(s, actual, text, eot) ==
    LET shown == JoinText(s.finalized_text[actual], text) IN
    IF eot
    THEN [ s EXCEPT !.current_speaker = actual,
                    !.finalized_text[actual] = shown,
                    !.transcription_data[actual] = shown ]
    ELSE [ s EXCEPT !.current_speaker = actual,
                    !.transcription_data[actual] = shown ]

\* _update_transcription(text, is_end_of_turn).  After a response call has
\* emptied the text of "other", the next update for "other" only takes the
\* flag down and writes nothing.  An error of the write is caught.
UpdateTranscription(s, text, eot, ls, o) ==
    LET actual == ActualSpeaker(s, ls) IN
    IF s.skip_next_other_update /\ actual = "other"
    THEN [ ts |-> [ s EXCEPT !.skip_next_other_update = FALSE,
                             !.current_speaker = IF eot THEN actual ELSE @ ],
           wrote |-> FALSE ]
    ELSE [ ts |-> WriteJsonFile(Recorded(s, actual, text, eot), o).ts,
           wrote |-> TRUE ]

\* Variant: a session begin that keeps the finalized texts.
OnBeginKeepsFinalized(s, o) ==
    WriteJsonFile([ s EXCEPT !.session_id = "id",
                             !.is_active = TRUE,
                             !.current_transcript = << >>,
                             !.complete_transcript = << >>,
                             !.transcript_history = << >>,
                             !.current_speaker = DefaultSpeaker,
                             !.transcription_data = EmptyData ], o)

\* on_begin, under the lock.  Nothing around the write catches.
OnBeginBody(s, o) ==
    WriteJsonFile([ s EXCEPT !.session_id = "id",
                             !.is_active = TRUE,
                             !.current_transcript = << >>,
                             !.complete_transcript = << >>,
                             !.transcript_history = << >>,
                             !.current_speaker = DefaultSpeaker,
                             !.transcription_data = EmptyData,
                             !.finalized_text = EmptyData ], o)

\* Variant: clear_transcript that leaves the current speaker alone.
ClearTranscriptKeepsSpeaker(s, o) ==
    WriteJsonFile([ s EXCEPT !.current_transcript = << >>,
                             !.complete_transcript = << >>,
                             !.transcript_history = << >>,
                             !.transcription_data = EmptyData,
                             !.finalized_text = EmptyData ], o)

\* clear_transcript, under the lock.
ClearTranscriptBody(s, o) ==
    WriteJsonFile([ s EXCEPT !.current_transcript = << >>,
                             !.complete_transcript = << >>,
                             !.transcript_history = << >>,
                             !.current_speaker = DefaultSpeaker,
                             !.transcription_data = EmptyData,
                             !.finalized_text = EmptyData ], o)

\* on_turn from its entry to the call of _update_transcription: the history
\* entry, the current transcript and, at an end of turn,
\* _handle_end_of_turn and the complete transcript.
OnTurnEntry(s, text, eot, ls, o, r) ==
    LET s1 == [ s EXCEPT !.transcript_history =
                             Append(@, [ transcript |-> text,
                                         is_end_of_turn |-> eot ]),
                         !.current_transcript = text ]
    IN  IF eot
        THEN LET h == HandleEndOfTurn(s1, text, ls, o, r) IN
             [ ts |-> [ h.ts EXCEPT !.complete_transcript =
                                        JoinText(@, text) ],
               called |-> h.called, wrote |-> h.wrote ]
        ELSE [ ts |-> s1, called |-> FALSE, wrote |-> FALSE ]

\* ---- actions -------------------------------------------------------------

\* The partial events in the history.
Partials(h) == Cardinality({ i \in 1..Len(h) : ~h[i].is_end_of_turn })

TsFrame == UNCHANGED << chunkvars, histvars, extvars >>

\* The outcome o of a write: failures are counted, up to MaxWriteFailures.
WriteAllowed(o) == o = "ok" \/ n_write_fail < MaxWriteFailures

Counted(wrote, o) == IF wrote /\ o # "ok" THEN 1 ELSE 0

\* on_begin(client, event).
OnBegin ==
    /\ ts_pc = "idle"
    /\ \E o \in WriteOutcomes :
         /\ WriteAllowed(o)
         /\ LET r == OnBeginBody(ts, o) IN
            /\ ts' = r.ts
            /\ ts_escaped' = (ts_escaped \/ r.raised)
         /\ n_write_fail' = n_write_fail + Counted(TRUE, o)
    /\ api_calls' = << >>
    /\ ts_ev' = "begin"
    /\ UNCHANGED << last_speaker_was_user, ts_pc >>
    /\ TsFrame

\* on_turn(client, event), event.transcript = text, event.end_of_turn = eot.
\* A partial event is handled in the one step.  An end-of-turn event reads
\* the classification twice, in _handle_end_of_turn and again in
\* _update_transcription, with the API call (up to 5 s) between the two:
\* this step goes as far as the second read, the lock being kept.
OnTurn(text, eot) ==
    /\ ts_pc = "idle"
    /\ Len(ts.transcript_history) < MaxTurns
    /\ ~eot => Partials(ts.transcript_history) < MaxPartials
    /\ \E o \in WriteOutcomes, r \in ApiOutcomes :
         /\ WriteAllowed(o)
         /\ LET e == OnTurnEntry(ts, text, eot, last_speaker_was_user, o, r)
            IN
            IF eot
            THEN /\ o # "ok" => e.wrote
                 /\ r # "ok" => e.called
                 /\ ts' = e.ts
                 /\ api_calls' = IF e.called THEN Append(api_calls, text)
                                 ELSE api_calls
                 /\ n_write_fail' = n_write_fail + Counted(e.wrote, o)
                 /\ ts_pc' = "update"
                 /\ ts_ev' = IF ~e.called THEN ""
                             ELSE IF r # "ok" THEN "api_failed"
                             ELSE "api_called"
            ELSE LET u == UpdateTranscription(e.ts, text, FALSE,
                                              last_speaker_was_user, o) IN
                 /\ o # "ok" => u.wrote
                 /\ r = "ok"
                 /\ ts' = u.ts
                 /\ n_write_fail' = n_write_fail + Counted(u.wrote, o)
                 /\ ts_ev' = ""
                 /\ UNCHANGED << api_calls, ts_pc >>
    /\ UNCHANGED << last_speaker_was_user, ts_escaped >>
    /\ TsFrame

\* on_turn, end of turn: _update_transcription(event.transcript, True), then
\* the lock is released.
OnTurnUpdate ==
    /\ ts_pc = "update"
    /\ \E o \in WriteOutcomes :
         /\ WriteAllowed(o)
         /\ LET u == UpdateTranscription(ts, ts.current_transcript, TRUE,
                                         last_speaker_was_user, o) IN
            /\ o # "ok" => u.wrote
            /\ ts' = u.ts
            /\ n_write_fail' = n_write_fail + Counted(u.wrote, o)
    /\ ts_pc' = "idle"
    /\ ts_ev' = ""
    /\ UNCHANGED << last_speaker_was_user, api_calls, ts_escaped >>
    /\ TsFrame

\* on_terminated(client, event).
OnTerminated ==
    /\ ts_pc = "idle"
    /\ ts' = [ ts EXCEPT !.is_active = FALSE ]
    /\ ts_ev' = ""
    /\ UNCHANGED << last_speaker_was_user, ts_pc, n_write_fail,
                    api_calls, ts_escaped >>
    /\ TsFrame

\* clear_transcript(), called from another thread; it waits for the lock.
ClearTranscript ==
    /\ ts_pc = "idle"
    /\ \E o \in WriteOutcomes :
         /\ WriteAllowed(o)
         /\ LET r == ClearTranscriptBody(ts, o) IN
            /\ ts' = r.ts
            /\ ts_escaped' = (ts_escaped \/ r.raised)
         /\ n_write_fail' = n_write_fail + Counted(TRUE, o)
    /\ ts_ev' = "clear"
    /\ api_calls' = << >>
    /\ UNCHANGED << last_speaker_was_user, ts_pc >>
    /\ TsFrame

\* speaker_service.is_user_speaking, line 145: the audio worker publishes
\* its classification of the chunk it has scored.
IsUserSpeaking(b) ==
    /\ last_speaker_was_user' = b
    /\ ts_ev' = IF ts_pc = "update" THEN ts_ev ELSE ""
    /\ UNCHANGED << ts, ts_pc, n_write_fail, api_calls, ts_escaped >>
    /\ TsFrame

TranscriptNext ==
    \/ OnBegin
    \/ \E text \in Texts, eot \in BOOLEAN : OnTurn(text, eot)
    \/ OnTurnUpdate
    \/ OnTerminated
    \/ ClearTranscript
    \/ \E b \in { "True", "False" } : IsUserSpeaking(b)

TranscriptSpec == Init /\ [][TranscriptNext]_vars


\* =========================================================================
\* Properties of TranscriptService
\* =========================================================================

\* The end-of-turn events in a history.
EndsOfTurn(h) == Cardinality({ i \in 1..Len(h) : h[i].is_end_of_turn })

IsPrefix(a, b) == Len(a) <= Len(b) /\ SubSeq(b, 1, Len(a)) = a

\* A step that is an on_turn call for a partial event, for an end-of-turn
\* event (as far as the second read), for any event.
PartialTurn == \E text \in Texts : OnTurn(text, FALSE)
EndOfTurn == \E text \in Texts : OnTurn(text, TRUE)
AnyTurn == \E text \in Texts, eot \in BOOLEAN : OnTurn(text, eot)

\* The last event delivered was an end of turn and on_turn has returned.
EndOfTurnHandled ==
    /\ ts_pc = "idle"
    /\ ts.transcript_history # << >>
    /\ Last(ts.transcript_history).is_end_of_turn

C13_OddEndOfTurnIgnored ==
    [][ /\ ( EndOfTurn /\ EndsOfTurn(ts.transcript_history) % 2 = 0 ) =>
             /\ api_calls' = api_calls
             /\ ts'.finalized_text = ts.finalized_text
        /\ ( OnTurnUpdate /\ EndsOfTurn(ts.transcript_history) % 2 = 1 ) =>
             /\ ts'.finalized_text = ts.finalized_text
             /\ ts'.transcription_data = ts.transcription_data
      ]_vars

C16_NoProcessingWhenInactive ==
    [][ ( AnyTurn /\ ~ts.is_active /\ ts.session_id # "None" ) =>
          ( ts' = ts /\ api_calls' = api_calls )
      ]_vars

\* The four end-of-turn events of the scenario.
Scenario ==
    << [ transcript |-> << "hi" >>, is_end_of_turn |-> TRUE ],
       [ transcript |-> << "hi" >>, is_end_of_turn |-> TRUE ],
       [ transcript |-> << "hello there" >>, is_end_of_turn |-> TRUE ],
       [ transcript |-> << "hello there" >>, is_end_of_turn |-> TRUE ] >>

\* C17: a session that has received the end-of-turn events "hi", "hi",
\* "hello there", "hello there" holds "hi" for "you" and "hello there" for
\* "other", has "you" as the current speaker, and has posted "hello there"
\* to the response API, once.
C17_ScenarioOutcome ==
    ( /\ ts_pc = "idle"
      /\ ts.is_active
      /\ ts.transcript_history = Scenario )
        => /\ ts.finalized_text =
                  [ you |-> << "hi" >>, other |-> << "hello there" >> ]
           /\ ts.current_speaker = "you"
           /\ api_calls = << << "hello there" >> >>

\* C18: within a session what the log holds is never altered or removed: a
\* turn event of an active session only adds to the finalized text of a
\* speaker.
C18_LogOnlyGrows ==
    [][ ( ts.is_active /\ ( AnyTurn \/ OnTurnUpdate ) ) =>
          \A k \in Speakers :
              IsPrefix(ts.finalized_text[k], ts'.finalized_text[k])
      ]_vars

\* C19: the current speaker is always "you" or "other", and right after
\* construction, a session begin and clear_transcript it is the default.
C19_SpeakerLabel ==
    /\ ts.current_speaker \in { "you", "other" }
    /\ ts_ev \in { "init", "begin", "clear" }
           => ts.current_speaker = DefaultSpeaker

\* clear_transcript has just run on a service whose speaker had been "you".
C19_Witness ==
    /\ ts_ev = "clear"
    /\ last_speaker_was_user = "True"
    /\ ts.is_active
    /\ ts.skip_next_other_update

\* The object without its file.
Mem(s) == [ s EXCEPT !.json_file = << >> ]

\* C20: no exception leaves a handler, and in every state, whatever call
\* comes next -- a session begin, a turn event or the update that ends one
\* -- a failing write leaves the object exactly as a successful write does.
C20_WriteFailureHarmless ==
    /\ ~ts_escaped
    /\ \A o \in WriteOutcomes \ { "ok" } :
         LET ls == last_speaker_was_user IN
         IF ts_pc = "update"
         THEN Mem(UpdateTranscription(ts, ts.current_transcript, TRUE, ls,
                                      o).ts)
                = Mem(UpdateTranscription(ts, ts.current_transcript, TRUE,
                                          ls, "ok").ts)
         ELSE /\ Mem(OnBeginBody(ts, o).ts) = Mem(OnBeginBody(ts, "ok").ts)
              /\ \A text \in Texts :
                   LET e_o == OnTurnEntry(ts, text, TRUE, ls, o, "ok")
                       e_ok == OnTurnEntry(ts, text, TRUE, ls, "ok", "ok")
                       p == OnTurnEntry(ts, text, FALSE, ls, o, "ok").ts
                   IN  /\ Mem(e_o.ts) = Mem(e_ok.ts)
                       /\ e_o.called = e_ok.called
                       /\ Mem(UpdateTranscription(p, text, FALSE, ls, o).ts)
                            = Mem(UpdateTranscription(p, text, FALSE, ls,
                                                      "ok").ts)

\* A write failed while an end-of-turn event was handled and the event was
\* recorded all the same: the file holds no document, the object holds both
\* speakers' texts.
C20_Witness ==
    /\ EndOfTurnHandled
    /\ n_write_fail > 0
    /\ ts.json_file = << >>
    /\ ts.finalized_text.you # << >>
    /\ ts.finalized_text.other # << >>
    /\ ts.transcription_data = ts.finalized_text

\* C21: no exception leaves a handler, and whichever way the response call
\* of an end-of-turn event fails -- a status other than 200, a timeout, a
\* request error -- on_turn leaves the object, the file and the posted text
\* exactly as it does when the call succeeds, so that the update of the
\* same event and every later event find the same state.
C21_ApiFailureHarmless ==
    /\ ~ts_escaped
    /\ ts_pc = "idle" =>
         \A r \in ApiOutcomes \ { "ok" }, text \in Texts :
             OnTurnEntry(ts, text, TRUE, last_speaker_was_user, "ok", r)
               = OnTurnEntry(ts, text, TRUE, last_speaker_was_user, "ok", "ok")

\* The response call of an end-of-turn event has just failed; the text of
\* "other" has been emptied and the skip flag is up, as after a success.
C21_Witness ==
    /\ ts_pc = "update"
    /\ ts_ev = "api_failed"
    /\ api_calls # << >>
    /\ Last(api_calls) = ts.current_transcript
    /\ ts.skip_next_other_update
    /\ ts.finalized_text.other = << >>
    /\ ts.finalized_text.you # << >>

\* C28: every session begin resets the last speaker classification to
\* "no classification yet".
C28_BeginResetsLastSpeaker ==
    [][OnBegin => last_speaker_was_user' = "None"]_vars


\* =========================================================================
\* Part 3: SpeakerService (services/speaker_service.py)
\* =========================================================================
\* enroll_user_voice, is_user_speaking and delete_user_profile run under the
\* object's lock, so each is one step.

Min(a, b) == IF a <= b THEN a ELSE b

\* np.dot and np.linalg.norm
Dot(u, v) == u[1] * v[1] + u[2] * v[2]
Norm(v) == CHOOSE n \in 0..Dot(v, v) : n * n = Dot(v, v)

\* _calculate_similarity: the cosine of the two vectors, moved from [-1, 1]
\* to [0, 1] by (similarity + 1) / 2.
CalculateSimilarity(profile1, profile2) ==
    (Scale * (Dot(profile1, profile2) + Norm(profile1) * Norm(profile2)))
        \div (2 * Norm(profile1) * Norm(profile2))

\* Variant: a similarity equal to the threshold counts as the user.
IsUserAtLeast(similarity_score, threshold) == similarity_score >= threshold

\* is_user = similarity_score > self.similarity_threshold
IsUser(similarity_score, threshold) == similarity_score > threshold

\* similarity_score / self.similarity_threshold: the division of a numpy
\* float by 0.0 gives inf, here a number above every quotient.
Infinity == Scale * Scale + 1
Ratio(similarity_score, threshold) ==
    IF threshold = 0 THEN Infinity
    ELSE (similarity_score * Scale) \div threshold

\* confidence = min(similarity_score / threshold, 1.0) if is_user
\*              else similarity_score
Confidence(similarity_score, threshold, is_user) ==
    IF is_user THEN Min(Ratio(similarity_score, threshold), Scale)
    ELSE similarity_score

\* What encode_batch can come to in is_user_speaking.
ScoreOutcomes == { "ok", "encode_fails" }

\* is_user_speaking(audio_data), the model being loaded: the result, and the
\* value of last_speaker_was_user afterwards (ls before).
IsUserSpeakingBody(s, audio, o, ls) ==
    IF s.user_voice_profile = NoProfile
    THEN [ result |-> NoProfileResult, last |-> ls ]
    ELSE IF o = "encode_fails"
    THEN [ result |-> FailedResult, last |-> ls ]
    ELSE LET current_embeddings == s.model[Pad(audio)]
             similarity_score ==
                 CalculateSimilarity(s.user_voice_profile, current_embeddings)
             is_user == IsUser(similarity_score, s.similarity_threshold)
             confidence ==
                 Confidence(similarity_score, s.similarity_threshold, is_user)
         IN  [ result |-> [ is_user |-> is_user,
                            confidence |-> confidence,
                            similarity_score |-> similarity_score ],
               last |-> IF is_user THEN "True" ELSE "False" ]

\* What enroll_user_voice can come to: success; sf.write of the temporary
\* file fails; encode_batch fails; np.save fails before it has touched the
\* file; np.save fails having begun to write.
EnrollOutcomes == { "ok", "wav_fails", "encode_fails", "save_fails",
                    "save_torn" }

\* enroll_user_voice(audio_data): the object afterwards and the boolean
\* returned.  The profile is assigned (line 89) before np.save (line 92).
EnrollUserVoiceBody(s, audio, o) ==
    IF o \in { "wav_fails", "encode_fails" }
    THEN [ sp |-> s, ok |-> FALSE ]
    ELSE LET embeddings == s.model[audio]
             s1 == [ s EXCEPT !.user_voice_profile = embeddings ]
         IN  IF o = "save_fails" THEN [ sp |-> s1, ok |-> FALSE ]
             ELSE IF o = "save_torn"
             THEN [ sp |-> [ s1 EXCEPT !.profile_file = TornFile ],
                    ok |-> FALSE ]
             ELSE [ sp |-> [ s1 EXCEPT !.profile_file = << embeddings >> ],
                    ok |-> TRUE ]

\* What delete_user_profile can come to.
DeleteOutcomes == { "ok", "remove_fails" }

\* delete_user_profile: the object afterwards, and whether os.remove raised
\* (nothing catches it).
DeleteUserProfileBody(s, o) ==
    LET s1 == [ s EXCEPT !.user_voice_profile = NoProfile ] IN
    IF s.profile_file = NoFile THEN [ sp |-> s1, raised |-> FALSE ]
    ELSE IF o = "remove_fails" THEN [ sp |-> s1, raised |-> TRUE ]
    ELSE [ sp |-> [ s1 EXCEPT !.profile_file = NoFile ], raised |-> FALSE ]

\* Variant: only the upper end of the range is tested.
ThresholdValidUpper(threshold) == threshold <= Scale

\* if 0.0 <= threshold <= 1.0
ThresholdValid(threshold) == 0 <= threshold /\ threshold <= Scale

\* _load_user_profile: np.load of the file if it exists; a file that does
\* not load is logged.
LoadUserProfile(file) ==
    IF file \in { NoFile, TornFile } THEN NoProfile ELSE file[1]

\* Everything outside the speaker service and its last-speaker field.
SpFrame == UNCHANGED << chunkvars, histvars, ts, ts_pc, n_write_fail,
                        api_calls, ts_escaped, ts_ev, gen, bin, cs, lk >>

\* speaker_service = SpeakerService(): the model m is loaded (the
\* constructor raises if it cannot be), and the profile is read from the
\* file a former run may have left.
SpeakerServiceInit(m, file) ==
    /\ ~sp.constructed
    /\ sp' = [ constructed |-> TRUE,
               model |-> m,
               user_voice_profile |-> LoadUserProfile(file),
               similarity_threshold |-> DefaultThreshold,
               profile_file |-> file ]
    /\ last_speaker_was_user' = "None"
    /\ sp_ret' = Call("init", << >>, TRUE, FALSE, FailedResult)
    /\ UNCHANGED sp_deleted
    /\ SpFrame

\* enroll_user_voice(audio)
EnrollUserVoice(audio, o) ==
    /\ sp.constructed
    /\ LET e == EnrollUserVoiceBody(sp, audio, o) IN
       /\ sp' = e.sp
       /\ sp_ret' = Call("enroll", audio, e.ok, FALSE, FailedResult)
       /\ sp_deleted' = IF e.ok THEN FALSE ELSE sp_deleted
    /\ UNCHANGED last_speaker_was_user
    /\ SpFrame

\* is_user_speaking(audio)
SpeakerIsUserSpeaking(audio, o) ==
    /\ sp.constructed
    /\ o = "encode_fails" => sp.user_voice_profile # NoProfile
    /\ LET r == IsUserSpeakingBody(sp, audio, o, last_speaker_was_user) IN
       /\ sp_ret' = Call("score", audio, TRUE, FALSE, r.result)
       /\ last_speaker_was_user' = r.last
    /\ UNCHANGED << sp, sp_deleted >>
    /\ SpFrame

\* has_user_profile()
HasUserProfile ==
    /\ sp.constructed
    /\ sp_ret' = Call("has", << >>, sp.user_voice_profile # NoProfile, FALSE,
                      FailedResult)
    /\ UNCHANGED << sp, sp_deleted, last_speaker_was_user >>
    /\ SpFrame

\* delete_user_profile()
DeleteUserProfile(o) ==
    /\ sp.constructed
    /\ o = "remove_fails" => sp.profile_file # NoFile
    /\ LET d == DeleteUserProfileBody(sp, o) IN
       /\ sp' = d.sp
       /\ sp_ret' = Call("delete", << >>, TRUE, d.raised, FailedResult)
       /\ sp_deleted' = IF d.raised THEN sp_deleted ELSE TRUE
    /\ UNCHANGED last_speaker_was_user
    /\ SpFrame

\* set_similarity_threshold(threshold)
SetSimilarityThreshold(threshold) ==
    /\ sp.constructed
    /\ sp' = IF ThresholdValid(threshold)
             THEN [ sp EXCEPT !.similarity_threshold = threshold ]
             ELSE sp
    /\ sp_ret' = Call("set", threshold, TRUE, FALSE, FailedResult)
    /\ UNCHANGED << sp_deleted, last_speaker_was_user >>
    /\ SpFrame

SpeakerNext ==
    \/ \E m \in Extractors, file \in ProfileFiles : SpeakerServiceInit(m, file)
    \/ \E audio \in Audios, o \in EnrollOutcomes : EnrollUserVoice(audio, o)
    \/ \E audio \in Audios, o \in ScoreOutcomes :
           SpeakerIsUserSpeaking(audio, o)
    \/ HasUserProfile
    \/ \E o \in DeleteOutcomes : DeleteUserProfile(o)
    \/ \E threshold \in ThresholdInputs : SetSimilarityThreshold(threshold)

SpeakerSpec == Init /\ [][SpeakerNext]_vars


\* ---- SpeakerService: properties -----------------------------------------

C23_EnrollAtomic ==
    [][\A audio \in Audios, o \in EnrollOutcomes :
         EnrollUserVoice(audio, o) =>
           \/ /\ sp_ret'.ok
              /\ sp'.user_voice_profile = sp.model[audio]
              /\ sp'.profile_file = << sp.model[audio] >>
           \/ /\ ~sp_ret'.ok
              /\ sp'.user_voice_profile = sp.user_voice_profile
              /\ sp'.profile_file = sp.profile_file]_vars

\* C24: from the return of delete_user_profile until the next successful
\* enroll_user_voice there is no profile in memory and no profile file,
\* has_user_profile is false and every scoring returns the no-profile
\* result.
C24_DeletedUntilEnrolled ==
    [][sp_deleted' =>
         /\ sp'.user_voice_profile = NoProfile
         /\ sp'.profile_file = NoFile
         /\ sp_ret'.op = "has" => ~sp_ret'.ok
         /\ sp_ret'.op = "score" => sp_ret'.result = NoProfileResult]_vars

\* C25: a scoring with a profile returns a similarity of (cos + 1) / 2,
\* within [0, 1]; is_user exactly when the similarity is above the
\* threshold; as confidence the similarity when not the user and
\* min(similarity / threshold, 1) -- which is 1 -- when the user; and a
\* confidence within [0, 1].
C25_ScoreArithmetic ==
    [][\A audio \in Audios :
         (sp.user_voice_profile # NoProfile
            /\ SpeakerIsUserSpeaking(audio, "ok")) =>
           LET r == sp_ret'.result
               thr == sp.similarity_threshold
               p == sp.user_voice_profile
               c == sp.model[Pad(audio)]
           IN  /\ 2 * Norm(p) * Norm(c) * r.similarity_score
                    = Scale * (Dot(p, c) + Norm(p) * Norm(c))
               /\ 0 <= r.similarity_score /\ r.similarity_score <= Scale
               /\ r.is_user <=> r.similarity_score > thr
               /\ ~r.is_user => r.confidence = r.similarity_score
               /\ r.is_user =>
                    /\ r.confidence * thr
                         = Min(r.similarity_score * Scale, thr * Scale)
                    /\ r.confidence = Scale
               /\ 0 <= r.confidence /\ r.confidence <= Scale]_vars

\* A scoring whose similarity equals the threshold: not the user.
C25_Witness ==
    /\ sp_ret.op = "score"
    /\ sp.user_voice_profile # NoProfile
    /\ sp.similarity_threshold = 800
    /\ sp_ret.result.similarity_score = 800
    /\ sp_ret.result.confidence = 800
    /\ ~sp_ret.result.is_user

\* C26: set_similarity_threshold(t) stores t when 0 <= t <= 1 and leaves
\* the threshold alone otherwise; the threshold is within [0, 1] always,
\* and 0.7 until a call is accepted.
C26_ThresholdValidated ==
    [][/\ \A t \in ThresholdInputs :
            SetSimilarityThreshold(t) =>
              sp'.similarity_threshold =
                IF 0 <= t /\ t <= Scale THEN t ELSE sp.similarity_threshold
       /\ 0 <= sp'.similarity_threshold
       /\ sp'.similarity_threshold <= Scale
       /\ (\A t \in ThresholdInputs :
              ~(SetSimilarityThreshold(t) /\ 0 <= t /\ t <= Scale))
            => sp'.similarity_threshold = sp.similarity_threshold]_vars

\* A rejected call after an accepted one: the accepted value stays.
C26_Witness ==
    /\ sp_ret.op = "set"
    /\ sp_ret.arg < 0
    /\ sp.similarity_threshold = Scale

\* C27: a scoring of the audio that the call just before it enrolled with
\* success returns similarity 1, and is_user whenever the threshold is
\* below 1.
C27_SelfSimilarity ==
    [][\A audio \in Audios :
         (sp_ret.op = "enroll" /\ sp_ret.ok /\ sp_ret.arg = audio
            /\ SpeakerIsUserSpeaking(audio, "ok")) =>
           /\ sp_ret'.result.similarity_score = Scale
           /\ sp.similarity_threshold < Scale => sp_ret'.result.is_user]_vars


\* =========================================================================
\* Part 4: response generation (generate.py, json_voice_assistant.py)
\* =========================================================================
\* Speech synthesis pulls ai_word_generator, which pulls
\* generate_streaming_response, which pulls the stream of the engine.

\* current_content.split(" ")
RECURSIVE Split(_)
Split(str) ==
    IF \A i \in 1..Len(str) : str[i] # " " THEN << str >>
    ELSE LET i == CHOOSE k \in 1..Len(str) :
                      str[k] = " " /\ \A j \in 1..(k - 1) : str[j] # " "
         IN  << SubSeq(str, 1, i - 1) >> \o Split(SubSeq(str, i + 1, Len(str)))

\* `if word.strip()`
NonBlank(str) == Strip(str) # << >>

\* generate_streaming_response, lines 61-67: the complete words of the
\* content are yielded, each followed by a space, and the last, incomplete
\* word is kept.
CompleteWords(content) ==
    LET words == Split(content) IN
    IF Len(words) > 1
    THEN LET complete == SelectSeq(Prefix(words, Len(words) - 1), NonBlank)
         IN  [ yields |-> [ i \in 1..Len(complete) |->
                              complete[i] \o << " " >> ],
               rest |-> Last(words) ]
    ELSE [ yields |-> << >>, rest |-> content ]

\* ai_word_generator: of what generate_streaming_response yields, each
\* piece that is not blank is passed on stripped and followed by a space.
AiWordGenerator(yields) ==
    LET kept == SelectSeq(yields, NonBlank) IN
    [ i \in 1..Len(kept) |-> Strip(kept[i]) \o << " " >> ]

\* Everything outside the generation.
GenFrame == UNCHANGED << chunkvars, histvars, tsvars, spvars, bin, cs, lk >>

\* What client.chat.completions.create can come to.
CreateOutcomes == { "ok", "create_fails" }

\* stream_ai_to_voice_realtime(user_input) up to the creation of the
\* stream.  When create raises, generate_streaming_response catches the
\* exception and yields the error text as its only piece.
GenStart(o) ==
    /\ gen.pc = "idle"
    /\ gen' = IF o = "ok"
              THEN [ gen EXCEPT !.pc = "streaming" ]
              ELSE [ gen EXCEPT !.pc = "done",
                                !.failed = TRUE,
                                !.handed = AiWordGenerator(<< ErrorText >>) ]
    /\ GenFrame

\* One chunk of the stream with content delta.
GenChunk(delta) ==
    /\ gen.pc = "streaming"
    /\ gen.n_chunks < MaxChunks
    /\ LET w == CompleteWords(gen.current_content \o delta) IN
       gen' = IF delta = << >>
              THEN [ gen EXCEPT !.n_chunks = @ + 1 ]
              ELSE [ gen EXCEPT !.n_chunks = @ + 1,
                                !.current_content = w.rest,
                                !.handed = @ \o AiWordGenerator(w.yields) ]
    /\ GenFrame

\* The stream raises between two chunks: the except clause yields the
\* error text and the generator ends.
GenStreamFails ==
    /\ gen.pc = "streaming"
    /\ gen' = [ gen EXCEPT !.pc = "done",
                           !.failed = TRUE,
                           !.handed = @ \o AiWordGenerator(<< ErrorText >>) ]
    /\ GenFrame

\* The stream ends: what is left of the content is yielded if not blank.
GenStreamEnds ==
    /\ gen.pc = "streaming"
    /\ gen' = [ gen EXCEPT
                  !.pc = "done",
                  !.handed = @ \o AiWordGenerator(<< gen.current_content >>) ]
    /\ GenFrame

\* stream_ai_to_voice_realtime returns; the next call starts afresh.
GenReturn ==
    /\ gen.pc = "done"
    /\ gen.n_responses + 1 < MaxResponses
    /\ gen' = [ InitGen EXCEPT !.n_responses = gen.n_responses + 1 ]
    /\ GenFrame

GenNext ==
    \/ \E o \in CreateOutcomes : GenStart(o)
    \/ \E delta \in Deltas : GenChunk(delta)
    \/ GenStreamFails
    \/ GenStreamEnds
    \/ GenReturn

GenSpec == Init /\ [][GenNext]_vars

\* C29: when the generation has failed, speech synthesis has been handed
\* the apology and nothing else, and no exception has left the call.
C29_FailureYieldsApology ==
    (gen.pc = "done" /\ gen.failed) =>
        /\ gen.handed = << Apology >>
        /\ ~gen.raised

\* =========================================================================
\* Part 5: JsonBinService (services/jsonbin_service.py)
\* =========================================================================

\* What a request to the store can come to: status 200; another status;
\* an exception (no connection, timeout, a body that is not JSON).
RequestOutcomes == { "ok", "status_500", "exception" }

\* Variant: a failed read answers with the record as it is.
GetPersonificationsDataAnyway(data, o) == data

\* get_personifications_data: the record, or the default on any failure.
GetPersonificationsData(data, o) ==
    IF o = "ok" THEN data ELSE DefaultData

\* `if not active_choice`
Falsy(choice) == choice \in { "None", "" }

\* get_active_personification: << >> for None, << r >> for the record r.
GetActivePersonificationBody(stored, o) ==
    LET data == GetPersonificationsData(stored, o)
        active_choice == data.choice
        personifications == data.personifications
        found == { i \in 1..Len(personifications) :
                     personifications[i].id = active_choice }
    IN  IF Falsy(active_choice) THEN << >>
        ELSE IF found = {} THEN << >>
        ELSE << personifications[CHOOSE i \in found :
                                   \A j \in found : i <= j] >>

\* Everything outside the store.
BinFrame == UNCHANGED << chunkvars, histvars, tsvars, spvars, gen, cs, lk >>

\* The personifications of the remote record are edited by its owner.
StoreEdited(list) ==
    /\ list # bin.data.personifications
    /\ bin' = [ data |-> [ bin.data EXCEPT !.personifications = list ],
                op |-> "edit", ok |-> TRUE, ret |-> << >>, raised |-> FALSE ]
    /\ BinFrame

\* get_active_personification()
GetActivePersonification(o) ==
    /\ bin' = [ bin EXCEPT !.op = "get",
                           !.ok = (o = "ok"),
                           !.ret = GetActivePersonificationBody(bin.data, o),
                           !.raised = FALSE ]
    /\ BinFrame

\* update_active_choice(personification_id): the read with outcome o_get,
\* then the PUT of {**current_data, "choice": personification_id} with
\* outcome o_put.
UpdateActiveChoice(personification_id, o_get, o_put) ==
    /\ LET current_data == GetPersonificationsData(bin.data, o_get)
           updated_data == [ current_data EXCEPT !.choice = personification_id ]
       IN  bin' = [ data |-> IF o_put = "ok" THEN updated_data ELSE bin.data,
                    op |-> "update", ok |-> (o_put = "ok"), ret |-> << >>,
                    raised |-> FALSE ]
    /\ BinFrame

JsonBinNext ==
    \/ \E list \in PersonificationLists : StoreEdited(list)
    \/ \E o \in RequestOutcomes : GetActivePersonification(o)
    \/ \E id \in Choices, o_get \in RequestOutcomes, o_put \in RequestOutcomes :
           UpdateActiveChoice(id, o_get, o_put)

JsonBinSpec == Init /\ [][JsonBinNext]_vars

Polling == { w \in ThreadIds : t_pc[w] \in { "get", "got" } }

\* C31: at most one worker thread executes the processing loop: no two
\* workers are at the queue at once.
C31_OneWorker == Cardinality(Polling) <= 1

\* C34: an append that makes the buffer exceed its maximum leaves, before
\* the chunk is extracted, exactly the last max_buffer_samples samples of
\* the old buffer followed by the frame: the buffer before the extraction
\* is the part the extraction removed followed by what it left.  A frame
\* no longer than the maximum is kept whole.
C34_TrimKeepsNewest ==
    [][(p_pc = "lock" /\ p_pc' # "lock") =>
         LET frame == NewFrame(p_frame)
             all == audio_buffer \o frame
             trimmed ==
                 IF h_last' # h_last \/ h_prev' # h_prev
                 THEN Prefix(h_last', ChunkSizeSamples - OverlapSamples)
                        \o audio_buffer'
                 ELSE audio_buffer'
         IN  Len(all) > MaxBufferSamples =>
               /\ trimmed = Suffix(all, MaxBufferSamples)
               /\ Len(frame) <= MaxBufferSamples =>
                    Suffix(trimmed, Len(frame)) = frame]_vars

\* An append has just overflowed a buffer that held older samples: the
\* newest sample of the stream is the last of the buffer.
C34_Witness ==
    /\ h_gap = "trim"
    /\ h_ev = ""
    /\ p_pc \in { "idle", "full" }
    /\ audio_buffer # << >>
    /\ Last(audio_buffer) = n_samples
    /\ h_last[1] > 1

\* C36: add_audio_data called while the service is not running returns at
\* once: buffer and queue are as they were, no chunk is made, and the
\* producer has gone no further into the call.
C36_AddIgnoredWhenStopped ==
    [][\A n \in FrameLens :
         (~is_running /\ AddAudioData(n)) =>
           /\ p_pc' = "idle"
           /\ UNCHANGED << audio_buffer, chunk_queue, p_chunk, n_samples,
                           h_last, h_prev >>]_vars

\* A frame has just been ignored after stop(), samples of the run before
\* being still in the buffer and a chunk still queued.
C36_Witness ==
    /\ h_ev = "add_ignored"
    /\ ~is_running
    /\ p_pc = "idle"
    /\ audio_buffer # << >>
    /\ chunk_queue # << >>


\* =========================================================================
\* Part 6: AudioChunkingService.add_audio_data for every configuration
\* =========================================================================
\* One running service, its producer alone: the sizes are chosen at
\* construction, and add_audio_data runs under the lock in one step.  The
\* queue is left out; the chunk made last is kept.

\* Variant: the whole chunk is removed from the buffer.
TryCreateChunkNoOverlap(buf, chunk_size, overlap) ==
    [ chunk |-> SubSeq(buf, 1, chunk_size),
      buffer |-> SubSeq(buf, chunk_size + 1, Len(buf)) ]

\* _try_create_chunk, lines 132-136: the chunk's data and the buffer left.
TryCreateChunk(buf, chunk_size, overlap) ==
    [ chunk |-> SubSeq(buf, 1, chunk_size),
      buffer |-> SubSeq(buf, (chunk_size - overlap) + 1, Len(buf)) ]

\* add_audio_data, lines 114-116, with max_buffer_samples = max.
TrimTo(buf, max) ==
    IF Len(buf) > max THEN SubSeq(buf, (Len(buf) - max) + 1, Len(buf))
    ELSE buf

\* Everything outside this service object.
CsFrame == UNCHANGED << chunkvars, histvars, tsvars, spvars, gen, bin, lk >>

\* AudioChunkingService(...) giving chunk_size_samples = c,
\* overlap_samples = o and max_buffer_samples = m with 0 <= o < c <= m.
ChunkerInit(c, o, m) ==
    /\ ~cs.constructed
    /\ 0 <= o /\ o < c /\ c <= m
    /\ cs' = [ NoChunker EXCEPT !.constructed = TRUE,
                                !.chunk_size_samples = c,
                                !.overlap_samples = o,
                                !.max_buffer_samples = m ]
    /\ CsFrame

\* add_audio_data with a frame of n samples, the service running.
ChunkerAdd(n) ==
    /\ cs.constructed
    /\ cs.n_samples + n <= MaxConfigSamples
    /\ LET frame == [ i \in 1..n |-> cs.n_samples + i ]
           buf == TrimTo(Concat(cs.audio_buffer, frame),
                         cs.max_buffer_samples)
           t == TryCreateChunk(buf, cs.chunk_size_samples, cs.overlap_samples)
       IN  cs' = IF Len(buf) >= cs.chunk_size_samples
                 THEN [ cs EXCEPT !.audio_buffer = t.buffer,
                                  !.chunk = t.chunk,
                                  !.n_samples = @ + n ]
                 ELSE [ cs EXCEPT !.audio_buffer = buf,
                                  !.n_samples = @ + n ]
    /\ CsFrame

ChunkerNext ==
    \/ \E c \in 1..MaxConfig, o \in 0..MaxConfig, m \in 1..MaxConfig :
           ChunkerInit(c, o, m)
    \/ \E n \in 1..MaxConfigFrame : ChunkerAdd(n)

ChunkerSpec == Init /\ [][ChunkerNext]_vars

\* C35: whenever add_audio_data makes a chunk, the chunk holds exactly
\* chunk_size_samples samples, the first ones of the buffer as it is at the
\* extraction, and the buffer is left without its first
\* chunk_size_samples - overlap_samples samples, whatever the sizes with
\* 0 <= overlap_samples < chunk_size_samples <= max_buffer_samples.
C35_ChunkExtraction ==
    [][\A n \in 1..MaxConfigFrame :
         ChunkerAdd(n) =>
           LET c == cs.chunk_size_samples
               o == cs.overlap_samples
               m == cs.max_buffer_samples
               all == cs.audio_buffer \o [ i \in 1..n |-> cs.n_samples + i ]
               buf == IF Len(all) > m THEN Suffix(all, m) ELSE all
           IN  IF Len(buf) >= c
               THEN /\ Len(cs'.chunk) = c
                    /\ cs'.chunk = Prefix(buf, c)
                    /\ Len(cs'.audio_buffer) = Len(buf) - (c - o)
                    /\ cs'.audio_buffer = Suffix(buf, Len(buf) - (c - o))
               ELSE /\ cs'.chunk = cs.chunk
                    /\ cs'.audio_buffer = buf]_vars

\* A service without overlap, or one whose chunk is its whole buffer, has
\* made a chunk that does not begin the stream.
C35_Witness ==
    /\ cs.constructed
    /\ cs.chunk # << >>
    /\ cs.chunk[1] > 1
    /\ \/ cs.overlap_samples = 0
       \/ cs.chunk_size_samples = cs.max_buffer_samples
    /\ Len(cs.chunk) = cs.chunk_size_samples
    /\ cs.chunk_size_samples > 1


\* =========================================================================
\* Further properties of TranscriptService
\* =========================================================================

\* The end-of-turn event being handled has made the response call.
Triggered == ts_pc = "update" /\ ts_ev \in { "api_called", "api_failed" }

\* C32: the event that made the response call, decided on the label
\* "other", is recorded with the label "other" as well, so that its update
\* takes down the skip flag the call has put up: on_turn returns with the
\* flag down.
C32_OneLabelPerEvent ==
    [][(Triggered /\ OnTurnUpdate) =>
         /\ ActualSpeaker(ts, last_speaker_was_user) = "other"
         /\ ~ts'.skip_next_other_update]_vars

C38_OtherEmptiedYouKept ==
    [][(Triggered /\ OnTurnUpdate) =>
         /\ ts'.finalized_text.other = << >>
         /\ ts'.transcription_data.other = << >>
         /\ ts'.finalized_text.you = ts.finalized_text.you
         /\ ts'.transcription_data.you = ts.transcription_data.you]_vars

\* completed_turns[-count:], the slice of Python: from the start when count
\* is 0 or more than the length.
LastOf(list, count) ==
    IF count = 0 \/ count >= Len(list) THEN list
    ELSE SubSeq(list, (Len(list) - count) + 1, Len(list))

IsEndOfTurn(entry) == entry.is_end_of_turn

\* get_recent_turns(count)
GetRecentTurns(s, count) ==
    LET completed_turns == SelectSeq(s.transcript_history, IsEndOfTurn) IN
    IF completed_turns # << >> THEN LastOf(completed_turns, count) ELSE << >>

\* C39: get_recent_turns(count) returns the last min(count, k) end-of-turn
\* entries of the history, k being how many it holds, for every count from
\* 0 up, and no partial entry.
C39_RecentTurns ==
    \A count \in 0..MaxTurns :
        LET got == GetRecentTurns(ts, count)
            completed == SelectSeq(ts.transcript_history, IsEndOfTurn)
            k == Len(completed)
        IN  /\ Len(got) <= count
            /\ Len(got) = Min(count, k)
            /\ got = Suffix(completed, Len(got))
            /\ \A i \in 1..Len(got) : got[i].is_end_of_turn


\* =========================================================================
\* Further properties of JsonBinService
\* =========================================================================

\* C40: a call of update_active_choice that returns True leaves the stored
\* list of personifications as it was, whether or not the read that
\* precedes the write succeeded.
C40_OnlyChoiceChanges ==
    [][\A personification_id \in Choices, o_get, o_put \in RequestOutcomes :
         ( UpdateActiveChoice(personification_id, o_get, o_put) /\ bin'.ok ) =>
             bin'.data.personifications = bin.data.personifications]_vars


\* =========================================================================
\* Part 7.  The mutexes of the three services
\*
\* Each service has one threading.Lock.  lk.owner says who holds each,
\* lk.pc where each thread is.  A thread at a "want" position has reached
\* `with self._lock` and takes the mutex when it is free.  The data the
\* services keep is in parts 1 to 3; kept here is what decides who asks
\* for which mutex: the running flag and how many chunks are queued.
\* =========================================================================

LkFrame == UNCHANGED << chunkvars, histvars, tsvars, spvars, gen, bin, cs >>

At(t, p) == lk.pc[t] = p
Goto(l, t, to) == [ l EXCEPT !.pc[t] = to ]

\* `with self._lock:` entered by thread t: the mutex must be free.
Acquire(t, m, from, to) ==
    /\ At(t, from)
    /\ lk.owner[m] = NoOwner
    /\ lk' = [ lk EXCEPT !.owner[m] = t, !.pc[t] = to ]
    /\ LkFrame

\* The end of the `with` block; l is the state the block has made.
Release(l, t, m, to) == [ l EXCEPT !.owner[m] = NoOwner, !.pc[t] = to ]

\* The positions at which a thread has asked for mutex m.
WantPcs(m) ==
    CASE m = "buffer" -> { "add_want", "start_want", "stop_want",
                           "clear_want" }
      [] m = "speaker" -> { "callback_want", "handle_want", "update_want",
                            "show_want" }
      [] m = "transcript" -> { "turn_want", "clear_transcript_want" }

\* The positions inside the block that begins at a "want" position.
InPcs(m) ==
    CASE m = "buffer" -> { "add_in", "start_in", "stop_in", "clear_in" }
      [] m = "speaker" -> { "callback_in", "handle_in", "update_in",
                            "show_in" }
      [] m = "transcript" -> { "turn_in", "clear_transcript_in" }

Waits(t, m) == lk.pc[t] \in WantPcs(m)
Holds(t, m) == lk.owner[m] = t

\* Thread t has asked for a mutex; it has got the one it asked for.
Waiting(t) == \E m \in Mutexes : Waits(t, m)
Entered(t) == \E m \in Mutexes : lk.pc[t] \in InPcs(m) /\ Holds(t, m)

\* ---- microphone thread: add_audio_data ----

\* Lines 97-98: the flag is read without the mutex; a stopped service
\* returns at once.
LkAddAudioData ==
    /\ At(Mic, "idle")
    /\ lk' = IF lk.is_running THEN Goto(lk, Mic, "add_want") ELSE lk
    /\ LkFrame

LkAddAcquire == Acquire(Mic, "buffer", "add_want", "add_in")

\* Lines 110-120 and the end of the block: the buffer grows and, when a
\* chunk is cut, put_nowait adds it to the queue, or replaces the oldest
\* when the queue is full; the queue never blocks the caller.
LkAddRelease ==
    /\ At(Mic, "add_in")
    /\ \E made \in BOOLEAN :
         lk' = Release([ lk EXCEPT !.queued =
                           IF made THEN Min(@ + 1, QueueMaxsize) ELSE @ ],
                       Mic, "buffer", "idle")
    /\ LkFrame

\* ---- control thread: start, stop, clear_buffer, clear_transcript ----

ControlCalls == { "start", "stop", "clear", "clear_transcript" }

\* The control thread makes its next call.  start() is called only while a
\* worker slot is left, or the service runs.
LkControlCall(call) ==
    /\ At(Control, "idle")
    /\ call = "start" =>
         ( lk.is_running \/ \E w \in Workers : lk.pc[w] = "none" )
    /\ lk' = Goto(lk, Control,
                  CASE call = "start" -> "start_want"
                    [] call = "stop" -> "stop_want"
                    [] call = "clear" -> "clear_want"
                    [] call = "clear_transcript" -> "clear_transcript_want")
    /\ LkFrame

LkStartAcquire == Acquire(Control, "buffer", "start_want", "start_in")

\* start, lines 68-75: return if running, else set the flag and start a
\* new worker thread; then the end of the block.
LkStartLocked ==
    /\ At(Control, "start_in")
    /\ IF lk.is_running
       THEN lk' = Release(lk, Control, "buffer", "idle")
       ELSE \E w \in Workers :
              /\ lk.pc[w] = "none"
              /\ \A v \in Workers : lk.pc[v] = "none" => w[2] <= v[2]
              /\ lk' = Release([ lk EXCEPT !.is_running = TRUE,
                                           !.pc[w] = "loop" ],
                               Control, "buffer", "idle")
    /\ LkFrame

LkStopAcquire == Acquire(Control, "buffer", "stop_want", "stop_in")

\* stop, lines 80-83: return if stopped, else clear the flag; the block
\* ends before the join.
LkStopLocked ==
    /\ At(Control, "stop_in")
    /\ lk' = IF lk.is_running
             THEN Release([ lk EXCEPT !.is_running = FALSE ],
                          Control, "buffer", "join")
             ELSE Release(lk, Control, "buffer", "idle")
    /\ LkFrame

\* stop, lines 85-86: join(timeout=2.0), holding no mutex, returns when
\* the worker has ended or after two seconds, whichever is first.
LkJoin ==
    /\ At(Control, "join")
    /\ lk' = Goto(lk, Control, "idle")
    /\ LkFrame

LkClearAcquire == Acquire(Control, "buffer", "clear_want", "clear_in")

\* clear_buffer, line 197 and the end of the block.
LkClearRelease ==
    /\ At(Control, "clear_in")
    /\ lk' = Release(lk, Control, "buffer", "idle")
    /\ LkFrame

LkClearTranscriptAcquire ==
    Acquire(Control, "transcript", "clear_transcript_want",
            "clear_transcript_in")

\* clear_transcript, lines 227-236 and the end of the block.
LkClearTranscriptRelease ==
    /\ At(Control, "clear_transcript_in")
    /\ lk' = Release(lk, Control, "transcript", "idle")
    /\ LkFrame

\* ---- dispatcher worker: _processing_loop ----

\* Line 164: the loop goes on while the flag is set, else the thread ends.
LkLoopTest(w) ==
    /\ At(w, "loop")
    /\ lk' = Goto(lk, w, IF lk.is_running THEN "get" ELSE "none")
    /\ LkFrame

\* Line 167: a chunk is taken, or the wait times out and the loop goes
\* round (lines 176-177).  The callback is called holding no mutex.
LkQueueGet(w) ==
    /\ At(w, "get")
    /\ lk' = IF lk.queued > 0
             THEN [ lk EXCEPT !.queued = @ - 1, !.pc[w] = "callback_want" ]
             ELSE Goto(lk, w, "loop")
    /\ LkFrame

\* speaker_recognition_callback calls is_user_speaking, which takes the
\* speaker mutex (speaker_service.py line 118).
LkCallbackAcquire(w) == Acquire(w, "speaker", "callback_want", "callback_in")

\* Variant: is_user_speaking returns with the speaker mutex still held.
LkCallbackReturnsLocked(w) ==
    /\ At(w, "callback_in")
    /\ lk' = Goto(lk, w, "loop")
    /\ LkFrame

\* is_user_speaking returns (every return is inside the `with` block,
\* which gives the mutex back), then the callback returns to the loop.
LkCallbackReturns(w) ==
    /\ At(w, "callback_in")
    /\ lk' = Release(lk, w, "speaker", "loop")
    /\ LkFrame

\* ---- recognizer thread: on_turn ----

LkOnTurn ==
    /\ At(Recognizer, "idle")
    /\ lk' = Goto(lk, Recognizer, "turn_want")
    /\ LkFrame

LkOnTurnAcquire == Acquire(Recognizer, "transcript", "turn_want", "turn_in")

\* Lines 148-163: the history is extended; an end of turn goes to
\* _handle_end_of_turn, any other event to _update_transcription; both
\* begin by reading the classification, for which they take the speaker
\* mutex while holding the transcript mutex.
LkOnTurnBranch(end_of_turn) ==
    /\ At(Recognizer, "turn_in")
    /\ lk' = Goto(lk, Recognizer,
                  IF end_of_turn THEN "handle_want" ELSE "update_want")
    /\ LkFrame

\* get_last_speaker_was_user called at line 262
LkHandleAcquire == Acquire(Recognizer, "speaker", "handle_want", "handle_in")

LkHandleRelease ==
    /\ At(Recognizer, "handle_in")
    /\ lk' = Release(lk, Recognizer, "speaker", "handle_call")
    /\ LkFrame

\* Lines 264-291: the tests, and the response call when they pass; it
\* returns or times out, and the handler goes on to the update.
LkHandleReturns ==
    /\ At(Recognizer, "handle_call")
    /\ lk' = Goto(lk, Recognizer, "update_want")
    /\ LkFrame

\* get_last_speaker_was_user called at line 115, for line 73
LkUpdateAcquire == Acquire(Recognizer, "speaker", "update_want", "update_in")

LkUpdateRelease ==
    /\ At(Recognizer, "update_in")
    /\ lk' = Release(lk, Recognizer, "speaker", "update_write")
    /\ LkFrame

\* Lines 75-109 and the end of on_turn's block at line 172: the update is
\* made and the transcript mutex given back; line 175 then asks for the
\* classification once more.
LkOnTurnRelease ==
    /\ At(Recognizer, "update_write")
    /\ lk' = Release(lk, Recognizer, "transcript", "show_want")
    /\ LkFrame

LkShowAcquire == Acquire(Recognizer, "speaker", "show_want", "show_in")

\* Lines 175-180: the label is printed and on_turn returns.
LkShowRelease ==
    /\ At(Recognizer, "show_in")
    /\ lk' = Release(lk, Recognizer, "speaker", "idle")
    /\ LkFrame

\* ---- the threads ----

MicAcquires == LkAddAcquire
MicSteps == LkAddRelease

ControlAcquires ==
    \/ LkStartAcquire
    \/ LkStopAcquire
    \/ LkClearAcquire
    \/ LkClearTranscriptAcquire

ControlSteps ==
    \/ LkStartLocked
    \/ LkStopLocked
    \/ LkJoin
    \/ LkClearRelease
    \/ LkClearTranscriptRelease

WorkerAcquires(w) == LkCallbackAcquire(w)

WorkerSteps(w) ==
    \/ LkLoopTest(w)
    \/ LkQueueGet(w)
    \/ LkCallbackReturns(w)

RecognizerAcquires ==
    \/ LkOnTurnAcquire
    \/ LkHandleAcquire
    \/ LkUpdateAcquire
    \/ LkShowAcquire

RecognizerSteps ==
    \/ \E end_of_turn \in BOOLEAN : LkOnTurnBranch(end_of_turn)
    \/ LkHandleRelease
    \/ LkHandleReturns
    \/ LkUpdateRelease
    \/ LkOnTurnRelease
    \/ LkShowRelease

LockNext ==
    \/ LkAddAudioData
    \/ MicAcquires
    \/ MicSteps
    \/ \E call \in ControlCalls : LkControlCall(call)
    \/ ControlAcquires
    \/ ControlSteps
    \/ \E w \in Workers : WorkerAcquires(w) \/ WorkerSteps(w)
    \/ LkOnTurn
    \/ RecognizerAcquires
    \/ RecognizerSteps

LockSpec == Init /\ [][LockNext]_vars

\* A call that has begun goes on: code that holds a mutex or runs between
\* two blocks is scheduled, callbacks and the response call return, and a
\* mutex that is free again and again is in the end given to each thread
\* that asks for it.  Nothing makes a thread begin a call.
FairLockSpec ==
    /\ LockSpec
    /\ WF_vars(MicSteps) /\ SF_vars(MicAcquires)
    /\ WF_vars(ControlSteps) /\ SF_vars(ControlAcquires)
    /\ WF_vars(RecognizerSteps) /\ SF_vars(RecognizerAcquires)
    /\ \A w \in Workers : WF_vars(WorkerSteps(w)) /\ SF_vars(WorkerAcquires(w))

====
